---- MODULE Spec2Model ----
(***************************************************************************)
(* A model of maap_client: the time-range helpers (utils.py, search.py),   *)
(* the registry / state tracker (registry.py, tracker.py), the boundary    *)
(* search (search.py) and the catalog builder (catalog_build.py).          *)
(*                                                                         *)
(* Time is counted in ticks.  One second is SubSec ticks (datetime values  *)
(* carry sub-second parts: legacy filenames hold milliseconds), one UTC    *)
(* day is DayLen ticks.  A day of the model is a compressed copy of the    *)
(* 86400 s day: the ticks of its first half count the half-seconds after   *)
(* its midnight (00:00:00, 00:00:00.5, ...), those of its second half the  *)
(* half-seconds before the next midnight (..., 23:59:59, 23:59:59.5).      *)
(* Adding or taking one second near midnight lands on the calendar day it  *)
(* lands on in the code.  Halving the distance of two instants that lie    *)
(* within Edge ticks of a midnight gives an instant within Edge ticks of   *)
(* a midnight or of the middle of a day, which is the day's noon.          *)
(*                                                                         *)
(* A datetime of the code is aware: it is an instant (a tick) and the UTC  *)
(* offset of its timezone.  Order and differences are those of the         *)
(* instants; date() is the calendar date in the datetime's own timezone.   *)
(* A UTC offset is modelled by the calendar days it moves instants to: an  *)
(* offset of Edge ticks is one of some hours, which carries the last       *)
(* seconds of a day over midnight and leaves noon where it is; an offset   *)
(* of DayLen \div 2 ticks is one of twelve hours, which carries noon to a  *)
(* midnight; an offset of DayLen - Edge ticks is one of more than twelve   *)
(* hours, which carries the seconds around noon over midnight and leaves   *)
(* the first seconds of a day on their day.  Operators that read date()    *)
(* take the offsets of their datetimes as tz, the pair of the offsets of   *)
(* start and end.  The specifications that do not draw tzoff from          *)
(* TzOffsets are those of callers that pass UTC datetimes.  The bounds of  *)
(* the callers and the granules lie within Edge ticks of a midnight.       *)
(*                                                                         *)
(* The wall clock is read more than once by most calls.  An operator that  *)
(* reads it takes nows, the sequence of its readings in the order of the   *)
(* reads; the readings of one call never decrease.                         *)
(***************************************************************************)
EXTENDS Integers, Sequences, FiniteSets, TLC

\* ------------------------------------------------------------------ bounds
SubSec == 2
SecsPerDay == 8
NDays == 6

\* ------------------------------------------------------------- time basics
DayLen == SecsPerDay * SubSec
OneSecond == SubSec
\* the ticks of two seconds: the distance from a midnight within which the
\* callers' bounds and the granules lie
Edge == 2 * OneSecond
\* the instants within two seconds of a midnight
Times ==
    {t \in 0 .. (NDays * DayLen - 1) :
        t % DayLen < Edge \/ t % DayLen >= DayLen - Edge}
\* Python's None for an absent datetime
None == -1
OptTimes == Times \cup {None}

Min(a, b) == IF a <= b THEN a ELSE b
Max(a, b) == IF a >= b THEN a ELSE b

\* the sequences of n readings of a clock that shows the values of clock, is
\* not set back, and has reached from: the clock shows a, and b from the k-th
\* reading on
Readings(n, clock, from) ==
    IF n = 0 THEN {<<>>}
    ELSE UNION {{[i \in 1 .. n |-> IF i < k THEN a ELSE b] :
                     k \in 1 .. n, b \in {c \in clock : c >= a}} :
                a \in {c \in clock : c >= from}}

\* datetime.date() of a UTC datetime
DateOf(t) == t \div DayLen
\* datetime.date(): the calendar date of an aware datetime in its own timezone
DateIn(t, utcoffset) == DateOf(t + utcoffset)
\* the UTC offsets of the callers' timezones, west of, at and east of Greenwich:
\* some hours, twelve hours and more than twelve hours from UTC
TzOffsets ==
    {0 - (DayLen - Edge), 0 - (DayLen \div 2), 0 - Edge, 0,
     Edge, DayLen \div 2, DayLen - Edge}
UTC == <<0, 0>>
\* datetime(y, m, d, 0, 0, 0, tzinfo=utc)
Midnight(d) == d * DayLen
\* datetime(y, m, d, 23, 59, 59, tzinfo=utc)
EndOfDay(d) == d * DayLen + DayLen - OneSecond
\* to_zulu: drops the sub-second part
ToZulu(t) == (t \div SubSec) * SubSec

\* mission bounds of the configuration (whole seconds; the end is a 23:59:59)
MissionStart == Midnight(1)
MissionEnd == EndOfDay(NDays - 2)

\* --------------------------------------------------- normalize_time_range
NormalizeTimeRange(start, end, mission_start, mission_end, now) ==
    LET end_cap == Min(now, mission_end)
        t0 == Max(IF start # None THEN start ELSE mission_start, mission_start)
        t1 == Min(IF end # None THEN end ELSE end_cap, end_cap)
    IN  <<t0, t1>>

\* the timezones of the two datetimes normalize_time_range returns: max() and
\* min() hand back the caller's datetime, in the caller's timezone, unless
\* they clamp it to a mission bound or to now, which are UTC datetimes
NormalizeZones(start, end, tz, mission_start, mission_end, now) ==
    LET end_cap == Min(now, mission_end)
    IN  <<IF start # None /\ start >= mission_start THEN tz[1] ELSE 0,
          IF end # None /\ end <= end_cap THEN tz[2] ELSE 0>>

\* --------------------------------------------------------- _iter_day_ranges
\* the loop: current and end_date are calendar dates, the bounds of the days
\* after the first and before the last are UTC datetimes
RECURSIVE IterDayFrom(_, _, _, _, _)
IterDayFrom(current, end_date, is_first, start, end) ==
    IF current > end_date THEN <<>>
    ELSE LET day_start == IF is_first THEN start ELSE Midnight(current)
             day_end == IF current = end_date THEN end ELSE EndOfDay(current)
             rest == IterDayFrom(current + 1, end_date, FALSE, start, end)
         IN  IF day_start < day_end THEN << <<day_start, day_end>> >> \o rest
             ELSE rest

\* current = start.date() and end_date = end.date() are the dates of start and
\* end in their own timezones
IterDayRanges(start, end, tz) ==
    IterDayFrom(DateIn(start, tz[1]), DateIn(end, tz[2]), TRUE, start, end)

\* ------------------------------------------- filenames, URLs and paths
\* A product URL or local path is modelled by what the extractors of paths.py
\* read from it: the naming convention of its basename (conv), the sensing
\* time of the basename (t, None when no timestamp pattern matches) and the
\* creation time / version that tells apart files of one sensing time (c).
\* kind tells a URL from the structured local path of the same basename and
\* from the empty string.
UrlOf(conv, t, c, bl) ==
    [kind |-> "url", conv |-> conv, t |-> t, c |-> c, bl |-> bl]
Url(conv, t, c) == UrlOf(conv, t, c, "BL")
Empty == [kind |-> "empty", conv |-> "", t |-> None, c |-> 0, bl |-> ""]

\* paths.extract_sensing_time (works on the basename of a URL or a path):
\* a name of neither convention holds no timestamp, whatever time (t) the
\* backend has indexed for the item
ExtractSensingTime(s) == IF s.conv \in {"ECA", "AE"} THEN s.t ELSE None

\* paths.extract_product: both conventions carry the product type in the name
ExtractProduct(s) == IF s.conv \in {"ECA", "AE"} THEN "PRODUCT" ELSE ""

\* paths.extract_baseline: in the filename for ECA_ names; for AE_ names only
\* in the directory part of the URL, so a bare filename (has_dirs = FALSE)
\* yields nothing
ExtractBaseline(s, has_dirs) ==
    IF s.conv = "ECA" THEN s.bl
    ELSE IF s.conv = "AE" /\ has_dirs THEN s.bl
    ELSE ""

\* paths.extract_creation_time: the second timestamp of an ECA_ name; AE_
\* names have none
ExtractCreationTime(s) == IF s.conv = "ECA" THEN s.c ELSE None

\* paths.extract_orbit_frame: the orbit field of a product filename; the
\* filenames of the model are numbered by their sensing tick
ExtractOrbitFrame(s) == IF s.conv \in {"ECA", "AE"} THEN s.t ELSE None

\* paths.extract_info: every extractor is applied to os.path.basename(uri)
ExtractInfo(uri) ==
    [sensing_time |-> ExtractSensingTime(uri),
     product_type |-> ExtractProduct(uri),
     baseline |-> ExtractBaseline(uri, FALSE),
     creation_time |-> ExtractCreationTime(uri),
     orbit_frame |-> ExtractOrbitFrame(uri)]

\* paths.generate_data_path: data_dir / mission / ... / product_type / baseline
\* / ... raises TypeError when a path component is None
GenerateDataPath(product_type, baseline, s) ==
    IF product_type = "" \/ baseline = ""
    THEN [raised |-> TRUE, path |-> Empty]
    ELSE [raised |-> FALSE, path |-> [s EXCEPT !.kind = "path"]]

\* paths.url_to_local_path: None (here Empty) without a sensing time
UrlToLocalPath(url) ==
    LET info == ExtractInfo(url)
    IN  IF info.sensing_time = None THEN [raised |-> FALSE, path |-> Empty]
        ELSE GenerateDataPath(info.product_type, info.baseline, url)

\* order of two URL strings of one directory: "AE_" < "ECA_" < others, then
\* the timestamp digits, then the creation time
ConvRank(s) == IF s.conv = "AE" THEN 1 ELSE IF s.conv = "ECA" THEN 2 ELSE 3
StrLeq(a, b) ==
    \/ ConvRank(a) < ConvRank(b)
    \/ ConvRank(a) = ConvRank(b) /\ a.t < b.t
    \/ ConvRank(a) = ConvRank(b) /\ a.t = b.t /\ a.c <= b.c

RECURSIVE SortedSeq(_)
SortedSeq(S) ==
    IF S = {} THEN <<>>
    ELSE LET m == CHOOSE x \in S : \A y \in S : StrLeq(x, y)
         IN  <<m>> \o SortedSeq(S \ {m})

Range(q) == {q[i] : i \in 1 .. Len(q)}

\* the orders in which the elements of a set can be listed
RECURSIVE Orders(_)
Orders(S) ==
    IF S = {} THEN {<<>>}
    ELSE UNION {{<<x>> \o q : q \in Orders(S \ {x})} : x \in S}

\* the granules of a set listed by sensing time
ByTime(S) ==
    CHOOSE q \in Orders(S) : \A i \in 1 .. (Len(q) - 1) : q[i].t <= q[i + 1].t

\* paths.filter_by_sensing_time
FilterBySensingTime(items, start, end) ==
    IF start = None /\ end = None THEN items
    ELSE SelectSeq(items, LAMBDA it :
            /\ ExtractSensingTime(it) # None
            /\ (start = None \/ start <= ExtractSensingTime(it))
            /\ (end = None \/ ExtractSensingTime(it) <= end))

\* ------------------------------------------------------- registry files
\* A file is absent or a sequence of lines; a line is KEY, KEY| or KEY|VALUE.
NoFile == [exists |-> FALSE, lines |-> <<>>]
Line(key, sep, val) == [key |-> key, sep |-> sep, val |-> val]
\* a line that line.strip() leaves empty
IsBlank(l) == l.key.kind = "empty" /\ ~l.sep

\* registry.read_pairs_file
ReadPairs(f) ==
    IF ~f.exists THEN <<>>
    ELSE LET ls == SelectSeq(f.lines, LAMBDA l : ~IsBlank(l))
         IN  [i \in 1 .. Len(ls) |-> <<ls[i].key, ls[i].val>>]

\* Registry.count_lines
CountLines(f) ==
    IF ~f.exists THEN 0 ELSE Len(SelectSeq(f.lines, LAMBDA l : ~IsBlank(l)))

\* the urls_by_date grouping of add_urls and save_urls: the dates in the
\* order of their first URL, and the URLs of one date in list order
RECURSIVE DateOrder(_, _)
DateOrder(urls, acc) ==
    IF urls = <<>> THEN acc
    ELSE LET dt == ExtractSensingTime(Head(urls))
         IN  IF dt = None \/ DateOf(dt) \in Range(acc)
             THEN DateOrder(Tail(urls), acc)
             ELSE DateOrder(Tail(urls), Append(acc, DateOf(dt)))

\* a grouping that puts every dated URL under every date
UrlsOfAnyDate(urls, d) ==
    SelectSeq(urls, LAMBDA u : ExtractSensingTime(u) # None)

UrlsOfDate(urls, d) ==
    SelectSeq(urls, LAMBDA u :
        ExtractSensingTime(u) # None /\ DateOf(ExtractSensingTime(u)) = d)

\* ---------------------------------------------- StateTracker.add_urls
\* the inner loop over one date's URLs, appending to the open file; a
\* TypeError of url_to_local_path leaves the loop with the lines written so
\* far (the with-block closes the file)
RECURSIVE AddUrlsAppend(_, _, _, _, _)
AddUrlsAppend(date_urls, lines, existing, new_count, data_dir) ==
    IF date_urls = <<>>
    THEN [lines |-> lines, new_count |-> new_count, raised |-> FALSE]
    ELSE LET url == Head(date_urls)
             lp == IF data_dir THEN UrlToLocalPath(url)
                   ELSE [raised |-> FALSE, path |-> Empty]
         IN  IF url \in existing
             THEN AddUrlsAppend(Tail(date_urls), lines, existing, new_count, data_dir)
             ELSE IF lp.raised
             THEN [lines |-> lines, new_count |-> new_count, raised |-> TRUE]
             ELSE AddUrlsAppend(Tail(date_urls),
                                Append(lines, Line(url, TRUE, lp.path)),
                                existing \cup {url}, new_count + 1, data_dir)

\* the outer loop over the dates
RECURSIVE AddUrlsDates(_, _, _, _, _)
AddUrlsDates(dates, urls, files, new_count, data_dir) ==
    IF dates = <<>>
    THEN [files |-> files, ret |-> new_count, raised |-> FALSE]
    ELSE LET d == Head(dates)
             existing == {pr[1] : pr \in Range(ReadPairs(files[d]))}
             r == AddUrlsAppend(UrlsOfDate(urls, d), files[d].lines, existing,
                                new_count, data_dir)
             written == [files EXCEPT ![d] = [exists |-> TRUE, lines |-> r.lines]]
         IN  IF r.raised
             THEN [files |-> written, ret |-> 0, raised |-> TRUE]
             ELSE AddUrlsDates(Tail(dates), urls, written, r.new_count, data_dir)

\* an add_urls that writes nothing
AddUrlsOpNothing(files, urls, data_dir) ==
    [files |-> files, ret |-> 0, raised |-> FALSE]

\* add_urls(urls) on the URL files: the files after the call, the value
\* returned and whether the call raised instead of returning
AddUrlsOp(files, urls, data_dir) ==
    AddUrlsDates(DateOrder(urls, <<>>), urls, files, 0, data_dir)

\* ------------------------------------------------- Registry.save_urls
\* existing_lines: url -> full line, the last line of a key winning
ExistingLines(f) ==
    LET ps == ReadPairs(f)
        last(k) == CHOOSE i \in 1 .. Len(ps) :
                      ps[i][1] = k /\ \A j \in (i + 1) .. Len(ps) : ps[j][1] # k
    IN  [k \in {pr[1] : pr \in Range(ps)} |->
            Line(k, ps[last(k)][2] # Empty, ps[last(k)][2])]

\* the local paths of the new URLs of one date, or the TypeError
NewLinesRaise(new_urls, data_dir) ==
    data_dir /\ \E i \in 1 .. Len(new_urls) : UrlToLocalPath(new_urls[i]).raised

NewLine(url, data_dir) ==
    Line(url, TRUE, IF data_dir THEN UrlToLocalPath(url).path ELSE Empty)

RECURSIVE SaveUrlsDates(_, _, _, _, _, _)
SaveUrlsDates(dates, urls, files, new_count, data_dir, io) ==
    IF dates = <<>>
    THEN [files |-> files, ret |-> new_count, raised |-> FALSE,
          touched |-> io.touched, rewritten |-> io.rewritten]
    ELSE LET d == Head(dates)
             f == files[d]
             date_urls == UrlsOfDate(urls, d)
             old == ExistingLines(f)
             existing == DOMAIN old
             new_urls == SelectSeq(date_urls, LAMBDA u : u \notin existing)
             merged == [k \in existing \cup Range(new_urls) |->
                           IF k \in Range(new_urls) THEN NewLine(k, data_dir)
                           ELSE old[k]]
             keys == SortedSeq(DOMAIN merged)
             all_lines == [i \in 1 .. Len(keys) |-> merged[keys[i]]]
         IN  IF f.exists /\ CountLines(f) = Len(date_urls)
             THEN \* same count: only touch the file
                  SaveUrlsDates(Tail(dates), urls, files, new_count, data_dir,
                      [io EXCEPT !.touched = @ \cup {d}])
             ELSE IF new_urls = <<>>
             THEN SaveUrlsDates(Tail(dates), urls, files, new_count, data_dir, io)
             ELSE IF NewLinesRaise(new_urls, data_dir)
             THEN [files |-> files, ret |-> 0, raised |-> TRUE,
                   touched |-> io.touched, rewritten |-> io.rewritten]
             ELSE SaveUrlsDates(Tail(dates), urls,
                      [files EXCEPT ![d] = [exists |-> TRUE, lines |-> all_lines]],
                      new_count + Len(new_urls), data_dir,
                      [io EXCEPT !.rewritten = @ \cup {d}])

\* save_urls(urls, data_dir): the files after the call, the new-URL count
\* returned, whether it raised, and the dates whose file it touched (mtime
\* only) or rewrote
SaveUrlsOp(files, urls, data_dir) ==
    SaveUrlsDates(DateOrder(urls, <<>>), urls, files, 0, data_dir,
                  [touched |-> {}, rewritten |-> {}])

\* ------------------------------------------------ Registry.append_line
AppendLine(files, d, line) ==
    [files EXCEPT ![d] = [exists |-> TRUE, lines |-> Append(@.lines, line)]]

\* ---------------------------------------- StateTracker.mark_downloaded
\* local_path = Empty stands for the default None
MarkDownloadedOp(files, url, local_path, data_dir) ==
    LET dt == ExtractSensingTime(url)
        computed == IF local_path = Empty /\ data_dir THEN UrlToLocalPath(url)
                    ELSE [raised |-> FALSE, path |-> Empty]
        path_str == IF local_path # Empty THEN local_path ELSE computed.path
    IN  IF dt = None THEN [files |-> files, ret |-> FALSE, raised |-> FALSE]
        ELSE IF computed.raised THEN [files |-> files, ret |-> FALSE, raised |-> TRUE]
        ELSE [files |-> AppendLine(files, DateOf(dt), Line(url, TRUE, path_str)),
              ret |-> TRUE, raised |-> FALSE]

\* ----------------------------------------------------- StateTracker.mark
MarkOp(files, path) ==
    LET dt == ExtractSensingTime(path)
    IN  IF dt = None THEN [files |-> files, ret |-> FALSE, raised |-> FALSE]
        ELSE [files |-> AppendLine(files, DateOf(dt), Line(path, FALSE, Empty)),
              ret |-> TRUE, raised |-> FALSE]

\* --------------------------------------------------- reading the registry
\* Registry.list_*_files: the existing daily files, sorted by name
ListFiles(files) ==
    LET S == {d \in DOMAIN files : files[d].exists}
        RECURSIVE asc(_)
        asc(T) == IF T = {} THEN <<>>
                  ELSE LET m == CHOOSE x \in T : \A y \in T : x <= y
                       IN  <<m>> \o asc(T \ {m})
    IN  asc(S)

\* the UTC offset of the timezone of the datetimes the caller passes, in
\* ticks (0: the caller passes UTC datetimes)
VARIABLE tzoff

\* tracker._to_date_range
ToDateRange(start, end) ==
    <<IF start # None THEN DateIn(start, tzoff) ELSE None,
      IF end # None THEN DateIn(end, tzoff) ELSE None>>

\* Registry.read_daily_pairs: (first, second, file_date) of the files whose
\* date lies in [start_date, end_date]
RECURSIVE ReadDailyFrom(_, _, _, _)
ReadDailyFrom(days, files, start_date, end_date) ==
    IF days = <<>> THEN <<>>
    ELSE LET fdate == Head(days)
             ps == ReadPairs(files[fdate])
             rest == ReadDailyFrom(Tail(days), files, start_date, end_date)
         IN  IF (start_date # None /\ fdate < start_date)
                \/ (end_date # None /\ fdate > end_date)
             THEN rest
             ELSE [i \in 1 .. Len(ps) |-> <<ps[i][1], ps[i][2], fdate>>] \o rest

ReadDailyPairs(files, start_date, end_date) ==
    ReadDailyFrom(ListFiles(files), files, start_date, end_date)

\* the keys of a dict built from a list of pairs, in insertion order
RECURSIVE DictKeys(_, _)
DictKeys(pairs, acc) ==
    IF pairs = <<>> THEN acc
    ELSE IF Head(pairs)[1] \in Range(acc) THEN DictKeys(Tail(pairs), acc)
    ELSE DictKeys(Tail(pairs), Append(acc, Head(pairs)[1]))

\* StateTracker.load_urls_with_paths (the URLs of the pairs returned)
LoadUrlsWithPaths(url_files, start, end) ==
    LET dr == ToDateRange(start, end)
        pairs == ReadDailyPairs(url_files, dr[1], dr[2])
    IN  FilterBySensingTime(DictKeys(pairs, <<>>), start, end)

\* StateTracker.get_downloaded_urls
GetDownloadedUrls(dwl_files, start, end) ==
    LET dr == ToDateRange(start, end)
        pairs == ReadDailyPairs(dwl_files, dr[1], dr[2])
        urls == [i \in 1 .. Len(pairs) |-> pairs[i][1]]
    IN  Range(FilterBySensingTime(urls, start, end))

\* StateTracker.get_downloaded_paths: the stored path of each download
\* record, or the one derived from its URL when the tracker has a data_dir;
\* raised tells that url_to_local_path failed with TypeError
GetDownloadedPaths(dwl_files, start, end, data_dir) ==
    LET dr == ToDateRange(start, end)
        pairs == ReadDailyPairs(dwl_files, dr[1], dr[2])
        derived(i) == IF pairs[i][2] = Empty /\ data_dir
                      THEN UrlToLocalPath(pairs[i][1])
                      ELSE [raised |-> FALSE, path |-> pairs[i][2]]
        have == SelectSeq([i \in 1 .. Len(pairs) |-> derived(i).path],
                          LAMBDA q : q # Empty)
    IN  [raised |-> \E i \in 1 .. Len(pairs) : derived(i).raised,
         paths |-> Range(FilterBySensingTime(have, start, end))]

\* get_pending_downloads without the set difference
GetPendingDownloadsNoDiff(url_files, dwl_files, start, end) ==
    Range(LoadUrlsWithPaths(url_files, start, end))

\* StateTracker.get_pending_downloads
GetPendingDownloads(url_files, dwl_files, start, end) ==
    Range(LoadUrlsWithPaths(url_files, start, end))
        \ GetDownloadedUrls(dwl_files, start, end)

\* how far the backend's time metadata may lie from the sensing time
VARIABLE slack
\* whether the backend reports the number of items a search matched
VARIABLE counted

\* ------------------------------------------------------ the STAC backend
\* The catalogue holds the granules of one product, in the order in which it
\* yields them; a granule is modelled by its enclosure URL, its productVersion
\* is the baseline of that URL and its datetime property the sensing time.
\* client.search(filter, datetime=(s, e)) matches the granules of the baseline
\* asked for (baseline "": no productVersion in the filter) inside [s, e];
\* without a datetime argument it matches those of every time.  The backend
\* filters on its own time metadata, which lies within slack of the sensing
\* time of the filename (slack = 0: an exact backend).
StacSearch(items, baseline, start, end) ==
    SelectSeq(items, LAMBDA g :
        /\ (baseline = "" \/ g.bl = baseline)
        /\ \/ start = None \/ end = None
           \/ (start - slack <= g.t /\ g.t <= end + slack))

\* search.matched(): the number of items matched, or None from a backend that
\* does not report it
Matched(found) == IF counted THEN Len(found) ELSE None

\* search.items() of a search with max_items: the first max_items of the
\* items matched
SearchItems(found, max_items) == SubSeq(found, 1, Min(max_items, Len(found)))

\* search.DEDUP_PRODUCTS
DEDUP_PRODUCTS == {"AUX_MET_1D"}

\* MaapSearcher._sort_urls: sorted() by sensing time, URLs of one sensing time
\* staying in the order given
RECURSIVE SortUrls(_)
SortUrls(urls) ==
    IF urls = <<>> THEN <<>>
    ELSE LET key(u) == ExtractSensingTime(u)
             rest == SortUrls(Tail(urls))
         IN  SelectSeq(rest, LAMBDA u : key(u) < key(Head(urls)))
                 \o <<Head(urls)>>
                 \o SelectSeq(rest, LAMBDA u : key(u) >= key(Head(urls)))

\* sorted(urls, key=extract_sensing_time(u) or datetime.min): the timezone-aware
\* sensing times cannot be compared with the naive datetime.min, so sorting
\* URLs with and without a sensing time raises TypeError
SortUrlsRaises(urls) ==
    \E x, y \in Range(urls) :
        ExtractSensingTime(x) = None /\ ExtractSensingTime(y) # None

\* whether _clean_search_results raises on the items a search yielded
CleanSearchResultsRaises(found, start, end) ==
    SortUrlsRaises(FilterBySensingTime(found, start, end))

\* _dedup_urls keeping every URL
DedupUrlsKeepAll(urls) == urls

\* the loop of _dedup_urls: vals are the values of urls_by_key in the order of
\* the dict, in which a key keeps the place of its first URL; a URL of an
\* earlier creation time replaces the one held for its key
RECURSIVE DedupInto(_, _)
DedupInto(urls, vals) ==
    IF urls = <<>> THEN vals
    ELSE LET url == Head(urls)
             same(v) == /\ ExtractBaseline(v, TRUE) = ExtractBaseline(url, TRUE)
                        /\ ExtractSensingTime(v) = ExtractSensingTime(url)
             at == {i \in 1 .. Len(vals) : same(vals[i])}
         IN  IF \/ ExtractBaseline(url, TRUE) = ""
                \/ ExtractSensingTime(url) = None
                \/ ExtractCreationTime(url) = None
             THEN DedupInto(Tail(urls), vals)
             ELSE IF at = {}
             THEN DedupInto(Tail(urls), Append(vals, url))
             ELSE LET i == CHOOSE j \in at : TRUE
                  IN  IF ExtractCreationTime(url) < ExtractCreationTime(vals[i])
                      THEN DedupInto(Tail(urls), [vals EXCEPT ![i] = url])
                      ELSE DedupInto(Tail(urls), vals)

\* MaapSearcher._dedup_urls: one URL per (baseline, sensing time), the one of
\* the earliest creation time; URLs without a baseline, a sensing time or a
\* creation time are dropped
DedupUrls(urls) == DedupInto(urls, <<>>)

\* MaapSearcher._clean_search_results on the enclosure URLs of the items a
\* search yielded: filtered by sensing time, sorted, deduplicated
CleanSearchResults(found, product_type, start, end, dedup) ==
    LET urls == SortUrls(FilterBySensingTime(found, start, end))
    IN  IF dedup /\ product_type \in DEDUP_PRODUCTS THEN DedupUrls(urls) ELSE urls

\* max_items of the searches of search_has_any_product and
\* search_product_count (150 in the code, scaled to the backends of the model)
HasAnyMaxItems == 2

\* MaapSearcher.search_has_any_product after the query: found are the items
\* matched and page the items search.items() yields
SearchHasAnyProductOf(found, page, product_type, start, end) ==
    IF Matched(found) = None \/ Matched(found) = 0 THEN FALSE
    ELSE IF start = None THEN TRUE
    ELSE Len(CleanSearchResults(page, product_type, start, end, FALSE)) >= 1

\* MaapSearcher.search_has_any_product on a backend that matches no more
\* than max_items items, so that it yields every one of them
SearchHasAnyProduct(items, product_type, baseline, start, end) ==
    LET found == StacSearch(items, baseline, start, end)
    IN  SearchHasAnyProductOf(found, found, product_type, start, end)

\* MaapSearcher.search_product_count: the number of matched items, 0 when the
\* backend does not report it
SearchProductCount(items, baseline, start, end) ==
    LET matched == Matched(StacSearch(items, baseline, start, end))
    IN  IF matched = None THEN 0 ELSE matched

\* search.py: single API call for ranges of at most this many days (10 in
\* the code, scaled to the model's mission of NDays - 2 days)
SingleCallDays == 2

\* MaapSearcher.search_urls_iter_day: one search per window of
\* _iter_day_ranges, sent with to_stac_datetime and filtered by the window
RECURSIVE SearchUrlsDays(_, _, _, _)
SearchUrlsDays(items, product_type, baseline, windows) ==
    IF windows = <<>> THEN <<>>
    ELSE LET w == Head(windows)
             found == StacSearch(items, baseline, ToZulu(w[1]), ToZulu(w[2]))
         IN  CleanSearchResults(found, product_type, w[1], w[2], TRUE)
                 \o SearchUrlsDays(items, product_type, baseline, Tail(windows))

\* the windows of search_urls_iter_day, which resolves the range it is given
\* once more, with a reading of its own
IterDayWindows(start, end, tz, now) ==
    IterDayRanges(NormalizeTimeRange(start, end, MissionStart, MissionEnd, now)[1],
                  NormalizeTimeRange(start, end, MissionStart, MissionEnd, now)[2],
                  NormalizeZones(start, end, tz, MissionStart, MissionEnd, now))

\* MaapSearcher.search_urls: nows[1] is the reading of its own
\* _resolve_time_range, nows[2] that of search_urls_iter_day, which is read
\* on the day-by-day branch only
SearchUrls(items, product_type, baseline, start, end, tz, nows) ==
    LET r == NormalizeTimeRange(start, end, MissionStart, MissionEnd, nows[1])
        z == NormalizeZones(start, end, tz, MissionStart, MissionEnd, nows[1])
        period_days == (r[2] - r[1]) \div DayLen
    IN  IF period_days <= SingleCallDays
        THEN CleanSearchResults(StacSearch(items, baseline, r[1], r[2]),
                                product_type, r[1], r[2], TRUE)
        ELSE SearchUrlsDays(items, product_type, baseline,
                            IterDayWindows(r[1], r[2], z, nows[2]))

\* search.NO_ORBIT_PRODUCTS
NO_ORBIT_PRODUCTS == {"AUX_MET_1D"}

\* the backend's answer to a query by orbit and frame: the items indexed with
\* that orbit (the items of the model are numbered by their indexed time)
StacSearchOrbit(items, baseline, orbit_frame) ==
    SelectSeq(items, LAMBDA g :
        (baseline = "" \/ g.bl = baseline) /\ g.t = orbit_frame)

\* MaapSearcher.search_urls_by_orbit: whether it raised, the URLs returned and
\* the number of queries sent
SearchUrlsByOrbit(items, product_type, baseline, orbit_frame) ==
    LET found == StacSearchOrbit(items, baseline, orbit_frame)
    IN  IF product_type \in NO_ORBIT_PRODUCTS
        THEN [raised |-> FALSE, urls |-> <<>>, queries |-> 0, found |-> <<>>]
        ELSE IF CleanSearchResultsRaises(found, None, None)
        THEN [raised |-> TRUE, urls |-> <<>>, queries |-> 1, found |-> found]
        ELSE [raised |-> FALSE,
              urls |-> CleanSearchResults(found, product_type, None, None, TRUE),
              queries |-> 1, found |-> found]

\* whether MaapSearcher.search_urls raises: in one of its calls of
\* _clean_search_results, each with the window of the query
SearchUrlsRaises(items, baseline, start, end, tz, nows) ==
    LET r == NormalizeTimeRange(start, end, MissionStart, MissionEnd, nows[1])
        z == NormalizeZones(start, end, tz, MissionStart, MissionEnd, nows[1])
        period_days == (r[2] - r[1]) \div DayLen
        windows == IterDayWindows(r[1], r[2], z, nows[2])
    IN  IF period_days <= SingleCallDays
        THEN CleanSearchResultsRaises(StacSearch(items, baseline, r[1], r[2]),
                                      r[1], r[2])
        ELSE \E i \in 1 .. Len(windows) :
                CleanSearchResultsRaises(
                    StacSearch(items, baseline, ToZulu(windows[i][1]),
                               ToZulu(windows[i][2])),
                    windows[i][1], windows[i][2])

\* the number of queries MaapSearcher.search_urls sends: one on the single
\* call branch; on the day-by-day branch one for each window, up to the
\* first whose results raise
SearchUrlsQueries(items, baseline, start, end, tz, nows) ==
    LET r == NormalizeTimeRange(start, end, MissionStart, MissionEnd, nows[1])
        z == NormalizeZones(start, end, tz, MissionStart, MissionEnd, nows[1])
        windows == IterDayWindows(r[1], r[2], z, nows[2])
        raising == {i \in 1 .. Len(windows) :
                       CleanSearchResultsRaises(
                           StacSearch(items, baseline, ToZulu(windows[i][1]),
                                      ToZulu(windows[i][2])),
                           windows[i][1], windows[i][2])}
    IN  IF (r[2] - r[1]) \div DayLen <= SingleCallDays THEN 1
        ELSE IF raising = {} THEN Len(windows)
        ELSE CHOOSE i \in raising : \A j \in raising : i <= j

\* --------------------------------- MaapSearcher.search_product_info_range
\* The two binary searches loop while lo.date() <= hi.date().  lo and hi start
\* as the datetimes t0 and t1, whose dates are read in their own timezones
\* (tz holds the UTC offsets of lo and hi), and are replaced by UTC midnights;
\* the windows probed are bounded by UTC datetimes.  acc holds the day found
\* so far, the windows probed, and the (lo, hi) pairs the loop has been in:
\* the loop's next step depends on lo and hi only, so a loop that comes back
\* to a pair never ends (hangs).
NoDay == [day |-> None, probes |-> <<>>, seen |-> {}, hangs |-> FALSE]

\* the first binary search: the earliest day d with data in [t0, d 23:59:59]
RECURSIVE FindFirstDay(_, _, _, _, _, _, _, _)
FindFirstDay(items, product_type, baseline, t0, lo, hi, tz, acc) ==
    IF DateIn(lo, tz[1]) > DateIn(hi, tz[2]) THEN acc
    ELSE IF <<lo, hi, tz>> \in acc.seen THEN [acc EXCEPT !.hangs = TRUE]
    ELSE LET mid_day == DateIn(lo + (hi - lo) \div 2, tz[1])
             mid_end == EndOfDay(mid_day)
             next == [acc EXCEPT !.probes = Append(@, <<t0, mid_end>>),
                                 !.seen = @ \cup {<<lo, hi, tz>>}]
         IN  IF SearchHasAnyProduct(items, product_type, baseline, t0, mid_end)
             THEN FindFirstDay(items, product_type, baseline, t0, lo,
                               Midnight(mid_day) - DayLen, <<tz[1], 0>>,
                               [next EXCEPT !.day = mid_day])
             ELSE FindFirstDay(items, product_type, baseline, t0,
                               Midnight(mid_day) + DayLen, hi, <<0, tz[2]>>,
                               next)

\* the second binary search: the latest day d with data in [d 00:00:00, t1]
RECURSIVE FindLastDay(_, _, _, _, _, _, _, _)
FindLastDay(items, product_type, baseline, t1, lo, hi, tz, acc) ==
    IF DateIn(lo, tz[1]) > DateIn(hi, tz[2]) THEN acc
    ELSE IF <<lo, hi, tz>> \in acc.seen THEN [acc EXCEPT !.hangs = TRUE]
    ELSE LET mid_day == DateIn(lo + (hi - lo) \div 2, tz[1])
             mid_start == Midnight(mid_day)
             next == [acc EXCEPT !.probes = Append(@, <<mid_start, t1>>),
                                 !.seen = @ \cup {<<lo, hi, tz>>}]
         IN  IF SearchHasAnyProduct(items, product_type, baseline, mid_start, t1)
             THEN FindLastDay(items, product_type, baseline, t1,
                              Midnight(mid_day) + DayLen, hi, <<0, tz[2]>>,
                              [next EXCEPT !.day = mid_day])
             ELSE FindLastDay(items, product_type, baseline, t1, lo,
                              Midnight(mid_day) - DayLen, <<tz[1], 0>>,
                              next)

\* the clock readings of one get_baseline_info that finds granules: the three
\* of search_product_info_range and the one that fills updated_at
InfoReads == 4

\* the value returned: None (found = FALSE) or the (first, last) granules;
\* queries lists the datetime windows of the searches issued, in order; a
\* call that hangs in a binary search returns nothing, and queries holds the
\* windows it sent until its loop came back to where it had been
NoGranule ==
    [sensing_time |-> None, product_type |-> "", baseline |-> "",
     creation_time |-> None, orbit_frame |-> None]
InfoNone(queries) ==
    [found |-> FALSE, first |-> NoGranule, last |-> NoGranule,
     queries |-> queries, hangs |-> FALSE, reads |-> 1]
InfoHangs(queries) == [InfoNone(queries) EXCEPT !.hangs = TRUE]

\* nows[1] is the reading of _resolve_time_range, nows[2] and nows[3] are
\* those of the search_urls calls that list the first and the last day; a
\* day's listing is a single call, which reads the clock once.  reads is the
\* number of readings the call has taken: one when it returns before the
\* listings
SearchProductInfoRange(items, product_type, baseline, start, end, tz, nows) ==
    LET r == NormalizeTimeRange(start, end, MissionStart, MissionEnd, nows[1])
        z == NormalizeZones(start, end, tz, MissionStart, MissionEnd, nows[1])
        t0 == r[1]
        t1 == r[2]
        q0 == << <<t0, t1>> >>
        fd == FindFirstDay(items, product_type, baseline, t0, t0, t1, z, NoDay)
        ld == FindLastDay(items, product_type, baseline, t1, t0, t1, z, NoDay)
        q1 == q0 \o fd.probes \o ld.probes
        ini == NormalizeTimeRange(Midnight(fd.day), EndOfDay(fd.day),
                                  MissionStart, MissionEnd, nows[2])
        fin == NormalizeTimeRange(Midnight(ld.day), EndOfDay(ld.day),
                                  MissionStart, MissionEnd, nows[3])
        first_day_urls == SearchUrls(items, product_type, baseline,
                                     Midnight(fd.day), EndOfDay(fd.day), UTC,
                                     <<nows[2], nows[2]>>)
        last_day_urls == SearchUrls(items, product_type, baseline,
                                    Midnight(ld.day), EndOfDay(ld.day), UTC,
                                    <<nows[3], nows[3]>>)
        q2 == q1 \o << ini, fin >>
    IN  IF ~SearchHasAnyProduct(items, product_type, baseline, t0, t1) THEN InfoNone(q0)
        ELSE IF fd.hangs THEN InfoHangs(q0 \o fd.probes)
        ELSE IF ld.hangs THEN InfoHangs(q1)
        ELSE IF fd.day = None \/ ld.day = None THEN InfoNone(q1)
        ELSE IF first_day_urls = <<>> \/ last_day_urls = <<>>
        THEN [InfoNone(q2) EXCEPT !.reads = InfoReads - 1]
        ELSE [found |-> TRUE,
              first |-> ExtractInfo(first_day_urls[1]),
              last |-> ExtractInfo(last_day_urls[Len(last_day_urls)]),
              queries |-> q2, hangs |-> FALSE, reads |-> InfoReads - 1]

\* ------------------------------------------- MaapClient.get_baseline_info
\* a BaselineInfo of the catalog (the count, the orbit frames of the first and
\* the last granule, and the time bounds and updated_at as Zulu strings, which
\* hold whole seconds), or no entry
Entry(time_start, time_end, frame_start, frame_end, count, updated_at) ==
    [present |-> TRUE, time_start |-> time_start, time_end |-> time_end,
     frame_start |-> frame_start, frame_end |-> frame_end,
     count |-> count, updated_at |-> updated_at]
NoEntry ==
    [present |-> FALSE, time_start |-> None, time_end |-> None,
     frame_start |-> None, frame_end |-> None, count |-> 0, updated_at |-> None]

\* get_baseline_info not called
NoInfo == [info |-> NoEntry, queries |-> <<>>, hangs |-> FALSE, reads |-> 0]

\* the BaselineInfo get_baseline_info makes of the granules found: ir is what
\* search_product_info_range returned
InfoOfRange(ir, items, baseline, start, end, now) ==
    IF ~ir.found
    THEN [info |-> NoEntry, queries |-> ir.queries, hangs |-> ir.hangs,
          reads |-> ir.reads]
    ELSE [info |-> Entry(ToZulu(ir.first.sensing_time),
                         ToZulu(ir.last.sensing_time),
                         ir.first.orbit_frame, ir.last.orbit_frame,
                         SearchProductCount(items, baseline, start, end),
                         ToZulu(now)),
          queries |-> Append(ir.queries, <<start, end>>),
          hangs |-> FALSE,
          reads |-> ir.reads + 1]

\* get_baseline_info(from_built=False): the info found (or none), the
\* datetime windows of the searches it issued and whether the call hangs
GetBaselineInfo(items, product_type, baseline, start, end, tz, nows) ==
    InfoOfRange(SearchProductInfoRange(items, product_type, baseline,
                                       start, end, tz, nows),
                items, baseline, start, end, nows[InfoReads])

\* ------------------------------------------ CatalogCollectionManager.build
\* BaselineInfo.time_range: both bounds or nothing
HasRange(e) == e.present /\ e.time_start # None /\ e.time_end # None

\* the ranges to fetch for one baseline: before and after the recorded range,
\* or the full requested range when nothing is recorded.  tz holds the UTC
\* offsets of effective_start and effective_end; the recorded bounds are
\* parsed from Zulu strings and are UTC datetimes
ToFetch(existing, effective_start, effective_end, tz) ==
    IF HasRange(existing)
    THEN (IF effective_start < existing.time_start
          THEN << [start |-> effective_start,
                   end |-> existing.time_start - OneSecond,
                   tz |-> <<tz[1], 0>>,
                   updates |-> "before"] >>
          ELSE <<>>)
         \o
         (IF effective_end > existing.time_end
          THEN << [start |-> existing.time_end + OneSecond,
                   end |-> effective_end,
                   tz |-> <<0, tz[2]>>,
                   updates |-> "after"] >>
          ELSE <<>>)
    ELSE << [start |-> effective_start, end |-> effective_end, tz |-> tz,
             updates |-> "full"] >>

\* one pass of the loop over to_fetch: has_any is what search_has_any_product
\* answered for the range f, got what get_baseline_info returned for it
FetchOne(f, has_any, got, acc) ==
    IF ~has_any
    THEN [acc EXCEPT !.queries = Append(@, <<f.start, f.end>>)]
    ELSE IF got.hangs
    THEN [acc EXCEPT !.queries = Append(@, <<f.start, f.end>>) \o got.queries,
                     !.hangs = TRUE, !.reads = @ + got.reads]
    ELSE IF ~got.info.present
    THEN [acc EXCEPT !.queries = Append(@, <<f.start, f.end>>) \o got.queries,
                     !.reads = @ + got.reads]
    ELSE [new_count |-> acc.new_count + got.info.count,
          time_start |-> IF f.updates \in {"full", "before"}
                         THEN got.info.time_start ELSE acc.time_start,
          frame_start |-> IF f.updates \in {"full", "before"}
                          THEN got.info.frame_start ELSE acc.frame_start,
          time_end |-> IF f.updates \in {"full", "after"}
                       THEN got.info.time_end ELSE acc.time_end,
          frame_end |-> IF f.updates \in {"full", "after"}
                        THEN got.info.frame_end ELSE acc.frame_end,
          queries |-> Append(acc.queries, <<f.start, f.end>>) \o got.queries,
          hangs |-> FALSE,
          reads |-> acc.reads + got.reads]

\* the loop over to_fetch: acc holds new_count, the result's time bounds,
\* the windows of the searches issued so far, whether a call has hung and
\* the number of readings taken; nows holds the readings of the clock still
\* to come: get_baseline_info is called for the ranges that have data, and
\* the next range goes on from the readings it has left
RECURSIVE FetchRanges(_, _, _, _, _, _)
FetchRanges(to_fetch, items, product_type, baseline, nows, acc) ==
    IF to_fetch = <<>> \/ acc.hangs THEN acc
    ELSE LET f == Head(to_fetch)
             has_any == SearchHasAnyProduct(items, product_type, baseline,
                                            f.start, f.end)
             got == GetBaselineInfo(items, product_type, baseline,
                                    f.start, f.end, f.tz, nows)
         IN  IF has_any
             THEN FetchRanges(Tail(to_fetch), items, product_type, baseline,
                      SubSeq(nows, got.reads + 1, Len(nows)),
                      FetchOne(f, TRUE, got, acc))
             ELSE FetchRanges(Tail(to_fetch), items, product_type, baseline,
                      nows, FetchOne(f, FALSE, NoInfo, acc))

\* total = (existing.count if existing else 0) + new_count
MergeCount(existing, new_count) ==
    (IF existing.present THEN existing.count ELSE 0) + new_count

\* a merge that stores the entry after every build that fetched
MergeResultAlways(existing, to_fetch, res, now) ==
    [entry |-> IF to_fetch # <<>> /\ ~res.hangs
               THEN Entry(res.time_start, res.time_end,
                          res.frame_start, res.frame_end,
                          MergeCount(existing, res.new_count), ToZulu(now))
               ELSE existing,
     to_fetch |-> to_fetch,
     queries |-> res.queries,
     hangs |-> res.hangs,
     reads |-> 2 + res.reads]

\* the entry set_baseline stores after the fetches (res), if they found any
MergeResult(existing, to_fetch, res, now) ==
    [entry |-> IF res.new_count > 0 /\ ~res.hangs
               THEN Entry(res.time_start, res.time_end,
                          res.frame_start, res.frame_end,
                          MergeCount(existing, res.new_count), ToZulu(now))
               ELSE existing,
     to_fetch |-> to_fetch,
     queries |-> res.queries,
     hangs |-> res.hangs,
     reads |-> 2 + res.reads]

\* the fetches of one baseline's ranges, starting from the existing bounds;
\* now is the reading build took when it was entered
FetchAll(existing, to_fetch, items, product_type, baseline, now, nows) ==
    MergeResult(existing, to_fetch,
        FetchRanges(to_fetch, items, product_type, baseline, nows,
            [new_count |-> 0,
             time_start |-> existing.time_start,
             time_end |-> existing.time_end,
             frame_start |-> existing.frame_start,
             frame_end |-> existing.frame_end,
             queries |-> <<>>, hangs |-> FALSE, reads |-> 0]),
        now)

\* to_fetch of a build that normalizes its range with the clock at now
BuildToFetch(existing, start, end, tz, now) ==
    ToFetch(existing,
            NormalizeTimeRange(start, end, MissionStart, MissionEnd, now)[1],
            NormalizeTimeRange(start, end, MissionStart, MissionEnd, now)[2],
            NormalizeZones(start, end, tz, MissionStart, MissionEnd, now))

\* the body of the loop over baselines_to_update for one baseline: the entry
\* after the build, the ranges fetched and the searches issued.  nows[1] is
\* the reading build took on entry, nows[2] that of normalize_time_range
BuildBaseline(existing, items, product_type, baseline, start, end, tz, nows) ==
    FetchAll(existing, BuildToFetch(existing, start, end, tz, nows[2]),
             items, product_type, baseline, nows[1], SubSeq(nows, 3, Len(nows)))

\* a CatalogCollection of one product and one baseline (the live queryables
\* list them both): absent, or the product entry and its baseline entry
Catalog(product, entry) == [exists |-> TRUE, product |-> product, entry |-> entry]
NoCatalog == [exists |-> FALSE, product |-> FALSE, entry |-> NoEntry]

\* CatalogManager.load: the cached object, else the file (which it caches)
LoadCatalog(cache, disk) == IF cache.exists THEN cache ELSE disk

\* what build leaves behind: the catalog returned (b is the baseline's
\* update), the manager's cache and the catalog file; reads counts the
\* readings of the clock: one on entry, one in normalize_time_range and
\* those of the calls of get_baseline_info
BuildResult(existing_catalog, file, existing, b) ==
    [catalog |-> Catalog(TRUE, b.entry),
     \* load cached what it read; build changed that object in place
     cache |-> IF existing_catalog.exists THEN Catalog(TRUE, b.entry)
               ELSE NoCatalog,
     disk |-> file,
     existing |-> existing,
     to_fetch |-> b.to_fetch,
     queries |-> b.queries,
     hangs |-> b.hangs,
     reads |-> b.reads]

\* the catalog build works on: the one loaded, or a new one without products
BuildFrom(existing_catalog, file, items, start, end, tz, nows) ==
    BuildResult(existing_catalog, file, existing_catalog.entry,
        BuildBaseline(existing_catalog.entry, items, "PRODUCT", "BL", start, end,
                      tz, nows))

\* build(collection, start=, end=, force=) with the other options at their
\* defaults, on a manager with the given cache and catalog file; tz holds the
\* UTC offsets of start and end and nows the readings of the clock
BuildOp(cache, disk, items, start, end, tz, force, nows) ==
    BuildFrom(LoadCatalog(cache, IF force THEN NoCatalog ELSE disk),
              IF force THEN NoCatalog ELSE disk,
              items, start, end, tz, nows)

\* the most readings a build takes: to_fetch holds two ranges at most
MaxBuildReads == 2 + 2 * InfoReads
\* the readings a clock that has reached from holds ready for a build
BuildNows(clock, from) == Readings(MaxBuildReads, clock, from)

\* ---------------------------------------------------------------- state
VARIABLES
    tin,      \* time helpers: the call's inputs [start, end, now]
    tout,     \* time helpers: the value returned
    tpc,      \* time helpers: "in" before the call, then the function called
    urlF,     \* registry: the url_YYYYMMDD.txt file of each date
    dwlF,     \* registry: the dwl_YYYYMMDD.txt file of each date
    mrkF,     \* registry: the mrk_YYYYMMDD.txt file of each date
    dataDir,  \* registry: whether the tracker was built with a data_dir
    calledDl, \* registry: the URLs mark_downloaded has been called for
    items,    \* search: the granules the STAC backend holds
    sin,      \* search: the call's inputs [start, end, nows]
    sout,     \* search: the value returned
    spc,      \* search: "in" before the call, then the method called
    disk,     \* catalog: the collection's catalog file
    cache,    \* catalog: the manager's _cache entry for the collection
    built,    \* catalog: the catalog the manager's last build returned
    cnow,     \* catalog: the last reading of the wall clock
    blog,     \* catalog: the last build call, what it fetched and searched
    wr,       \* registry: the save_urls call in progress, step by step
    fs,       \* cleanup: the local paths that exist
    locked,   \* cleanup: the local paths os.remove fails on
    cret,     \* cleanup: the last cleanup_marked call and what it returned
    errF,     \* errors: the characters of errors.txt
    errCalls, \* errors: the number of mark_error calls made
    ptype,    \* search: the product type asked for
    uret,     \* search: the call made and what it returned
    bis,      \* search: the binary searches run and the windows each probed
    dl,       \* download: the last download call, what it attempted and returned
    vcall,    \* client: the last validated call, whether it raised and what it did
    sel,      \* build: the last selection of baselines, its inputs and the baselines updated
    oret,     \* search: the last URL search over a result set that may hold unparsable items
    sv,       \* save_urls in two processes: each one's position, URLs, handle and count
    rf,       \* save_urls in two processes: the bytes of the URL file of each date
    overlap,  \* save_urls in two processes: whether the two calls ran at the same time
    sy        \* sync: the last run of sync or download, what it found and transferred, and the transfers completed so far

timeVars == <<tin, tout, tpc>>
regVars == <<urlF, dwlF, mrkF, dataDir, calledDl>>
searchVars == <<items, sin, sout, spc>>
catVars == <<disk, cache, built, cnow, blog>>
stepVars == <<wr>>
cleanVars == <<fs, locked, cret>>
errVars == <<errF, errCalls>>
urlsVars == <<slack, counted, ptype, uret>>
bisVars == <<bis>>
dlVars == <<dl>>
valVars == <<vcall>>
winVars == <<tzoff>>
selVars == <<sel>>
orbVars == <<oret>>
raceVars == <<sv, rf, overlap>>
syncVars == <<sy>>
vars == <<timeVars, regVars, searchVars, catVars, stepVars, cleanVars, errVars, urlsVars, bisVars, dlVars, valVars, winVars, selVars, orbVars, raceVars, syncVars>>

NoTimeCall == [start |-> None, end |-> None, now |-> 0]
NoSearchCall == [start |-> None, end |-> None, nows |-> <<>>]
NoBuild ==
    [op |-> "none", force |-> FALSE, start |-> None, end |-> None, nows |-> <<>>,
     cached |-> FALSE, existing |-> NoEntry, result |-> NoCatalog,
     to_fetch |-> <<>>, queries |-> <<>>, hangs |-> FALSE, builds |-> 0]

\* ------------------------------------------------ the registry's inputs
Days == 0 .. (NDays - 1)
MaxLen == 2
MaxAppends == 2

\* the product URLs of the calls: two EarthCARE granules of one day, a legacy
\* (Aeolus) granule with a millisecond sensing time on the next day, and a
\* URL no timestamp pattern matches
E1 == Url("ECA", Midnight(1), 0)
E2 == Url("ECA", Midnight(1) + OneSecond, 0)
A1 == Url("AE", Midnight(2) + 1, 0)
BAD == Url("", None, 0)
RegUrls == {E1, E2, A1, BAD}
UrlLists == UNION {[1 .. n -> RegUrls] : n \in 0 .. MaxLen}
\* local paths handed to mark_downloaded and mark
PathOf(u) == [u EXCEPT !.kind = "path"]
RegPaths == {PathOf(E1), PathOf(BAD)}

NoFiles == [d \in Days |-> NoFile]
\* no cleanup_marked call yet
NoUrlCall ==
    [op |-> "none", baseline |-> "", has_any |-> FALSE, urls |-> <<>>, page |-> <<>>]
NoBisect ==
    [op |-> "none", first |-> <<>>, last |-> <<>>,
     first_day |-> None, last_day |-> None]
NoResult == [downloaded |-> {}, skipped |-> <<>>, errors |-> <<>>]
NoDownload ==
    [op |-> "none", urls |-> <<>>, out_dir |-> FALSE, track_state |-> FALSE,
     skip_existing |-> FALSE, dry_run |-> FALSE, failing |-> {},
     denied |-> {}, raised |-> FALSE,
     fs_before |-> {}, attempted |-> {}, result |-> NoResult]
NoArg == [given |-> FALSE, t |-> None, aware |-> FALSE]
NoValidated ==
    [op |-> "none", start |-> NoArg, end |-> NoArg, orbit |-> "",
     baseline |-> FALSE,
     env |-> [stored |-> FALSE, fetch_ok |-> FALSE, supports |-> FALSE],
     raised |-> "", effects |-> {}]
NoSelection ==
    [op |-> "none", enum |-> {}, existing |-> {}, with_data |-> {},
     baselines_filter |-> {}, latest_baseline |-> FALSE, to_update |-> <<>>]
NoOrbitCall ==
    [op |-> "none", product_type |-> "", found |-> <<>>, raised |-> FALSE,
     urls |-> <<>>, queries |-> 0]
IdleSaver ==
    [pc |-> "idle", urls |-> <<>>, dates |-> <<>>, got |-> <<>>, pending |-> <<>>,
     pos |-> 0, new_urls |-> <<>>, counted |-> {}]
\* no URL file of any date
NoByteFiles == [d \in Days |-> [exists |-> FALSE, bytes |-> <<>>]]
IdleSavers == [p \in {1, 2} |-> IdleSaver]
NoSync ==
    [op |-> "none", runs |-> 0, urls |-> <<>>, to_download |-> <<>>,
     attempted |-> {}, raised |-> FALSE, errors |-> <<>>, dwl_before |-> {},
     fs_before |-> {}, completed |-> {}]
NoCleanup ==
    [called |-> FALSE, dry_run |-> FALSE, ret |-> {},
     fs_before |-> {}, fs_after |-> {},
     reg_before |-> <<NoFiles, NoFiles, NoFiles>>,
     reg_after |-> <<NoFiles, NoFiles, NoFiles>>]
\* no save_urls call in progress
IdleSave ==
    [pc |-> "idle", urls |-> <<>>, dates |-> <<>>, pending |-> <<>>,
     before |-> NoFiles, new_urls |-> 0, new_count |-> 0]
\* ------------------------------------------------ the time-helper calls
TimeInit ==
    /\ tin \in [start : OptTimes, end : OptTimes,
                now : {ToZulu(t) : t \in {x \in Times : x >= MissionStart}}]
    /\ tout = <<>>
    /\ tpc = "in"
    /\ urlF = NoFiles /\ dwlF = NoFiles /\ mrkF = NoFiles
    /\ dataDir = FALSE /\ calledDl = {}
    /\ items = <<>> /\ sin = NoSearchCall /\ sout = InfoNone(<<>>) /\ spc = "idle"
    /\ disk = NoCatalog /\ cache = NoCatalog /\ built = NoCatalog
    /\ cnow = 0 /\ blog = NoBuild
    /\ wr = IdleSave
    /\ fs = {} /\ locked = {} /\ cret = NoCleanup
    /\ errF = <<>> /\ errCalls = 0
    /\ slack = 0 /\ counted = TRUE /\ ptype = "PRODUCT" /\ uret = NoUrlCall
    /\ bis = NoBisect
    /\ dl = NoDownload
    /\ vcall = NoValidated
    /\ tzoff \in TzOffsets
    /\ sel = NoSelection
    /\ oret = NoOrbitCall
    /\ sv = IdleSavers /\ rf = NoByteFiles /\ overlap = FALSE
    /\ sy = NoSync

CallNormalizeTimeRange ==
    /\ tpc = "in"
    /\ tout' = NormalizeTimeRange(tin.start, tin.end, MissionStart, MissionEnd, tin.now)
    /\ tpc' = "normalize_time_range"
    /\ UNCHANGED <<tin, regVars, searchVars, catVars, stepVars, cleanVars, errVars, urlsVars, bisVars, dlVars, valVars, winVars, selVars, orbVars, raceVars, syncVars>>

CallIterDayRanges ==
    /\ tpc = "in"
    /\ tin.start # None /\ tin.end # None
    /\ tout' = IterDayRanges(tin.start, tin.end, <<tzoff, tzoff>>)
    /\ tpc' = "_iter_day_ranges"
    /\ UNCHANGED <<tin, regVars, searchVars, catVars, stepVars, cleanVars, errVars, urlsVars, bisVars, dlVars, valVars, winVars, selVars, orbVars, raceVars, syncVars>>

TimeNext == CallNormalizeTimeRange \/ CallIterDayRanges

\* ------------------------------------------------- the registry calls
\* a fresh registry directory; the tracker is built with or without data_dir
RegInit ==
    /\ urlF = NoFiles /\ dwlF = NoFiles /\ mrkF = NoFiles
    /\ dataDir \in BOOLEAN
    /\ calledDl = {}
    /\ tin = NoTimeCall /\ tout = <<>> /\ tpc = "idle"
    /\ items = <<>> /\ sin = NoSearchCall /\ sout = InfoNone(<<>>) /\ spc = "idle"
    /\ disk = NoCatalog /\ cache = NoCatalog /\ built = NoCatalog
    /\ cnow = 0 /\ blog = NoBuild
    /\ wr = IdleSave
    /\ fs = {} /\ locked = {} /\ cret = NoCleanup
    /\ errF = <<>> /\ errCalls = 0
    /\ slack = 0 /\ counted = TRUE /\ ptype = "PRODUCT" /\ uret = NoUrlCall
    /\ bis = NoBisect
    /\ dl = NoDownload
    /\ vcall = NoValidated
    /\ tzoff = 0
    /\ sel = NoSelection
    /\ oret = NoOrbitCall
    /\ sv = IdleSavers /\ rf = NoByteFiles /\ overlap = FALSE
    /\ sy = NoSync

RECURSIVE SumLines(_, _)
SumLines(files, S) ==
    IF S = {} THEN 0
    ELSE LET d == CHOOSE x \in S : TRUE
         IN  Len(files[d].lines) + SumLines(files, S \ {d})
Appended == SumLines(dwlF, Days) + SumLines(mrkF, Days)

AddUrls ==
    \E L \in UrlLists :
        LET r == AddUrlsOp(urlF, L, dataDir)
        IN  /\ urlF' = r.files
            /\ UNCHANGED <<dwlF, mrkF, dataDir, calledDl, timeVars, searchVars, catVars, stepVars, cleanVars, errVars, urlsVars, bisVars, dlVars, valVars, winVars, selVars, orbVars, raceVars, syncVars>>

SaveUrls ==
    \E L \in UrlLists :
        LET r == SaveUrlsOp(urlF, L, dataDir)
        IN  /\ urlF' = r.files
            /\ UNCHANGED <<dwlF, mrkF, dataDir, calledDl, timeVars, searchVars, catVars, stepVars, cleanVars, errVars, urlsVars, bisVars, dlVars, valVars, winVars, selVars, orbVars, raceVars, syncVars>>

MarkDownloaded ==
    /\ Appended < MaxAppends
    /\ \E u \in RegUrls : \E lp \in {Empty, PathOf(u)} :
        LET r == MarkDownloadedOp(dwlF, u, lp, dataDir)
        IN  /\ dwlF' = r.files
            /\ calledDl' = calledDl \cup {u}
            /\ UNCHANGED <<urlF, mrkF, dataDir, timeVars, searchVars, catVars, stepVars, cleanVars, errVars, urlsVars, bisVars, dlVars, valVars, winVars, selVars, orbVars, raceVars, syncVars>>

Mark ==
    /\ Appended < MaxAppends
    /\ \E p \in RegPaths :
        LET r == MarkOp(mrkF, p)
        IN  /\ mrkF' = r.files
            /\ UNCHANGED <<urlF, dwlF, dataDir, calledDl, timeVars, searchVars, catVars, stepVars, cleanVars, errVars, urlsVars, bisVars, dlVars, valVars, winVars, selVars, orbVars, raceVars, syncVars>>

RegNext == AddUrls \/ SaveUrls \/ MarkDownloaded \/ Mark

\* --------------------------------------------------- the search calls
MaxGranules == 2
MissionDays == DateOf(MissionStart) .. DateOf(MissionEnd)
\* an EarthCARE catalogue holds granules sensed at whole seconds, a legacy
\* (Aeolus) catalogue granules with millisecond sensing times
EcaGranules ==
    {Url("ECA", Midnight(d), 0) : d \in MissionDays}
        \cup {Url("ECA", EndOfDay(d), 0) : d \in MissionDays}
AeGranules ==
    {Url("AE", Midnight(d) + 1, 0) : d \in MissionDays}
        \cup {Url("AE", EndOfDay(d) + 1, 0) : d \in MissionDays}
Backends ==
    UNION {Orders(S) : S \in {T \in (SUBSET EcaGranules) \cup (SUBSET AeGranules) :
                                 Cardinality(T) <= MaxGranules}}
SearchTimes ==
    {None} \cup {Midnight(d) : d \in Days} \cup {EndOfDay(d) : d \in Days}
\* the wall clock: on the last day of the mission, or after its end
SearchNows == {Midnight(NDays - 2), Midnight(NDays - 1)}

SearchInit ==
    /\ items \in Backends
    /\ sin \in [start : SearchTimes, end : SearchTimes,
                nows : Readings(InfoReads - 1, SearchNows, 0)]
    /\ sout = InfoNone(<<>>)
    /\ spc = "in"
    /\ tin = NoTimeCall /\ tout = <<>> /\ tpc = "idle"
    /\ urlF = NoFiles /\ dwlF = NoFiles /\ mrkF = NoFiles
    /\ dataDir = FALSE /\ calledDl = {}
    /\ disk = NoCatalog /\ cache = NoCatalog /\ built = NoCatalog
    /\ cnow = 0 /\ blog = NoBuild
    /\ wr = IdleSave
    /\ fs = {} /\ locked = {} /\ cret = NoCleanup
    /\ errF = <<>> /\ errCalls = 0
    /\ slack = 0 /\ counted = TRUE /\ ptype = "PRODUCT" /\ uret = NoUrlCall
    /\ bis = NoBisect
    /\ dl = NoDownload
    /\ vcall = NoValidated
    /\ tzoff \in TzOffsets
    /\ sel = NoSelection
    /\ oret = NoOrbitCall
    /\ sv = IdleSavers /\ rf = NoByteFiles /\ overlap = FALSE
    /\ sy = NoSync

\* searcher.search_product_info_range(collection, product, baseline, start,
\* end) with datetimes of the caller's timezone, the clock showing sin.nows
\* at its three reads; a call that hangs in a binary search never returns
CallSearchProductInfoRange ==
    /\ spc = "in"
    /\ sout' = SearchProductInfoRange(items, "PRODUCT", "BL", sin.start, sin.end,
                                       <<tzoff, tzoff>>, sin.nows)
    /\ spc' = IF sout'.hangs THEN "hangs" ELSE "search_product_info_range"
    /\ UNCHANGED <<items, sin, timeVars, regVars, catVars, stepVars, cleanVars, errVars, urlsVars, bisVars, dlVars, valVars, winVars, selVars, orbVars, raceVars, syncVars>>

SearchNext == CallSearchProductInfoRange

\* ---------------------------------------------------- the catalog's calls
MaxBuilds == 2
MaxCatalogued == 3

\* the backends a catalog is built from: up to MaxCatalogued granules of one
\* mission, sensed after the mission's first day, yielded by sensing time (no
\* two are sensed at one time, and below max_items no result of a search
\* depends on the order of granules of different sensing times)
CatBackends ==
    {ByTime(S) : S \in
        {T \in (SUBSET {g \in EcaGranules : DateOf(g.t) > DateOf(MissionStart)})
                \cup (SUBSET {g \in AeGranules : DateOf(g.t) > DateOf(MissionStart)}) :
            Cardinality(T) <= MaxCatalogued}}

\* legacy granules sensed in the second before a day's last second as well
InnerAeGranules ==
    AeGranules \cup {Url("AE", EndOfDay(d) - 1, 0) : d \in MissionDays}

\* the backends of the builds: up to MaxCatalogued granules of one mission,
\* EarthCARE granules of the day the builds' bounds end on and of the day
\* after, or legacy granules of the two days the builds' bounds lie on
BuildBackends ==
    {ByTime(S) : S \in
        {T \in (SUBSET {g \in EcaGranules : DateOf(g.t) \in {3, 4}})
                \cup (SUBSET {g \in InnerAeGranules : DateOf(g.t) \in {2, 3}}) :
            Cardinality(T) <= MaxCatalogued}}

\* the bounds a caller asks a build for: none, the first or the last second
\* of a day in the middle of the mission, or an instant inside a day
BuildStarts == {None, Midnight(2) + OneSecond, Midnight(3)}
BuildEnds == {None, EndOfDay(3) - OneSecond, EndOfDay(3)}

\* the wall clock of the builds: on the last day of the mission, or after
\* its end
BuildClock == {Midnight(NDays - 2), Midnight(NDays - 1)}

CatInit ==
    /\ items \in BuildBackends
    /\ disk = NoCatalog /\ cache = NoCatalog /\ built = NoCatalog
    /\ cnow = Midnight(NDays - 2)
    /\ blog = NoBuild
    /\ wr = IdleSave
    /\ fs = {} /\ locked = {} /\ cret = NoCleanup
    /\ errF = <<>> /\ errCalls = 0
    /\ slack = 0 /\ counted = TRUE /\ ptype = "PRODUCT" /\ uret = NoUrlCall
    /\ bis = NoBisect
    /\ dl = NoDownload
    /\ vcall = NoValidated
    /\ tzoff = 0
    /\ sel = NoSelection
    /\ oret = NoOrbitCall
    /\ sv = IdleSavers /\ rf = NoByteFiles /\ overlap = FALSE
    /\ sy = NoSync
    /\ sin = NoSearchCall /\ sout = InfoNone(<<>>) /\ spc = "idle"
    /\ tin = NoTimeCall /\ tout = <<>> /\ tpc = "idle"
    /\ urlF = NoFiles /\ dwlF = NoFiles /\ mrkF = NoFiles
    /\ dataDir = FALSE /\ calledDl = {}

\* manager.build(collection, start=, end=, force=): any bounds, any catalog
\* found, and a clock that runs while the build does; nows are the readings
\* the build takes of it; a run of the program makes up to MaxBuilds builds
Build ==
    /\ blog.builds < MaxBuilds
    /\ \E force \in BOOLEAN, start \in BuildStarts, end \in BuildEnds :
         \E ready \in BuildNows(BuildClock, cnow) :
           \E r \in {BuildOp(cache, disk, items, start, end, <<tzoff, tzoff>>, force, ready)} :
             \E nows \in {SubSeq(ready, 1, r.reads)} :
               /\ disk' = r.disk
               /\ cache' = r.cache
               \* a call that hangs returns no catalog
               /\ built' = IF r.hangs THEN built ELSE r.catalog
               /\ cnow' = nows[Len(nows)]
               /\ blog' = [op |-> "build", force |-> force, start |-> start,
                           end |-> end, nows |-> nows, cached |-> cache.exists,
                           existing |-> r.existing, result |-> r.catalog,
                           to_fetch |-> r.to_fetch, queries |-> r.queries,
                           hangs |-> r.hangs, builds |-> blog.builds + 1]
               /\ UNCHANGED <<timeVars, regVars, searchVars, stepVars, cleanVars, errVars, urlsVars, bisVars, dlVars, valVars, winVars, selVars, orbVars, raceVars, syncVars>>

\* manager.save(catalog) of the catalog the last build returned
Save ==
    /\ built.exists
    /\ disk' = built
    /\ cache' = built
    /\ UNCHANGED <<built, cnow, blog, timeVars, regVars, searchVars, stepVars, cleanVars, errVars, urlsVars, bisVars, dlVars, valVars, winVars, selVars, orbVars, raceVars, syncVars>>

\* manager.load(collection) reading the file
Load ==
    /\ ~cache.exists /\ disk.exists
    /\ cache' = disk
    /\ UNCHANGED <<disk, built, cnow, blog, timeVars, regVars, searchVars, stepVars, cleanVars, errVars, urlsVars, bisVars, dlVars, valVars, winVars, selVars, orbVars, raceVars, syncVars>>

\* a later run: a manager with an empty cache over the same directory
NewManager ==
    /\ cache.exists \/ built.exists
    /\ cache' = NoCatalog
    /\ built' = NoCatalog
    /\ blog' = [NoBuild EXCEPT !.builds = blog.builds]
    /\ UNCHANGED <<disk, cnow, timeVars, regVars, searchVars, stepVars, cleanVars, errVars, urlsVars, bisVars, dlVars, valVars, winVars, selVars, orbVars, raceVars, syncVars>>

CatNext == Build \/ Save \/ Load \/ NewManager

\* ------------------------------------- save_urls, one file operation at a time
\* the new URLs of one date: the date's URLs not yet in the file
NewUrlsOf(f, date_urls) ==
    SelectSeq(date_urls, LAMBDA u : u \notin DOMAIN ExistingLines(f))

\* all_lines: the existing lines and the lines of the new URLs, sorted by URL
AllLinesOf(f, date_urls, data_dir) ==
    LET old == ExistingLines(f)
        new == Range(NewUrlsOf(f, date_urls))
        keys == SortedSeq(DOMAIN old \cup new)
    IN  [i \in 1 .. Len(keys) |->
            IF keys[i] \in new THEN NewLine(keys[i], data_dir) ELSE old[keys[i]]]

\* save_urls(urls) is called: the URLs are grouped by sensing date
SaveBegin ==
    /\ wr.pc \in {"idle", "returned", "raised", "stopped"}
    /\ \E L \in UrlLists :
          wr' = [pc |-> "loop", urls |-> L, dates |-> DateOrder(L, <<>>),
                 pending |-> <<>>, before |-> urlF, new_urls |-> 0,
                 new_count |-> 0]
    /\ UNCHANGED <<urlF, dwlF, mrkF, dataDir, calledDl,
                   timeVars, searchVars, catVars, cleanVars, errVars, urlsVars, bisVars, dlVars, valVars, winVars, selVars, orbVars, raceVars, syncVars>>

\* the loop reaches the next date: touch, skip, raise, or open(url_file, "w"),
\* which empties the file
SaveDate ==
    /\ wr.pc = "loop" /\ wr.dates # <<>>
    /\ LET d == Head(wr.dates)
           f == urlF[d]
           date_urls == UrlsOfDate(wr.urls, d)
           new_urls == NewUrlsOf(f, date_urls)
       IN  IF (f.exists /\ CountLines(f) = Len(date_urls)) \/ new_urls = <<>>
           THEN /\ wr' = [wr EXCEPT !.dates = Tail(@)]
                /\ UNCHANGED urlF
           ELSE IF NewLinesRaise(new_urls, dataDir)
           THEN /\ wr' = [wr EXCEPT !.pc = "raised"]
                /\ UNCHANGED urlF
           ELSE /\ wr' = [wr EXCEPT !.pc = "write",
                                    !.pending = AllLinesOf(f, date_urls, dataDir),
                                    !.new_urls = Len(new_urls)]
                /\ urlF' = [urlF EXCEPT ![d] = [exists |-> TRUE, lines |-> <<>>]]
    /\ UNCHANGED <<dwlF, mrkF, dataDir, calledDl, timeVars, searchVars, catVars, cleanVars, errVars, urlsVars, bisVars, dlVars, valVars, winVars, selVars, orbVars, raceVars, syncVars>>

\* f.write(line + "\n") reaches the file
SaveWriteLine ==
    /\ wr.pc = "write" /\ wr.pending # <<>>
    /\ urlF' = [urlF EXCEPT ![Head(wr.dates)].lines = Append(@, Head(wr.pending))]
    /\ wr' = [wr EXCEPT !.pending = Tail(@)]
    /\ UNCHANGED <<dwlF, mrkF, dataDir, calledDl, timeVars, searchVars, catVars, cleanVars, errVars, urlsVars, bisVars, dlVars, valVars, winVars, selVars, orbVars, raceVars, syncVars>>

\* the with-block closes the file; the loop goes on with the next date
SaveClose ==
    /\ wr.pc = "write" /\ wr.pending = <<>>
    /\ wr' = [wr EXCEPT !.pc = "loop", !.dates = Tail(@),
                        !.new_count = @ + wr.new_urls]
    /\ UNCHANGED <<urlF, dwlF, mrkF, dataDir, calledDl,
                   timeVars, searchVars, catVars, cleanVars, errVars, urlsVars, bisVars, dlVars, valVars, winVars, selVars, orbVars, raceVars, syncVars>>

\* return new_count, files_written
SaveReturn ==
    /\ wr.pc = "loop" /\ wr.dates = <<>>
    /\ wr' = [wr EXCEPT !.pc = "returned"]
    /\ UNCHANGED <<urlF, dwlF, mrkF, dataDir, calledDl,
                   timeVars, searchVars, catVars, cleanVars, errVars, urlsVars, bisVars, dlVars, valVars, winVars, selVars, orbVars, raceVars, syncVars>>

\* the process stops (is killed, loses power) in the middle of save_urls
SaveStop ==
    /\ wr.pc \in {"loop", "write"}
    /\ wr' = [wr EXCEPT !.pc = "stopped"]
    /\ UNCHANGED <<urlF, dwlF, mrkF, dataDir, calledDl,
                   timeVars, searchVars, catVars, cleanVars, errVars, urlsVars, bisVars, dlVars, valVars, winVars, selVars, orbVars, raceVars, syncVars>>

SaveStepInit ==
    /\ urlF = NoFiles /\ dwlF = NoFiles /\ mrkF = NoFiles
    /\ dataDir \in BOOLEAN
    /\ calledDl = {}
    /\ wr = IdleSave
    /\ fs = {} /\ locked = {} /\ cret = NoCleanup
    /\ errF = <<>> /\ errCalls = 0
    /\ slack = 0 /\ counted = TRUE /\ ptype = "PRODUCT" /\ uret = NoUrlCall
    /\ bis = NoBisect
    /\ dl = NoDownload
    /\ vcall = NoValidated
    /\ tzoff = 0
    /\ sel = NoSelection
    /\ oret = NoOrbitCall
    /\ sv = IdleSavers /\ rf = NoByteFiles /\ overlap = FALSE
    /\ sy = NoSync
    /\ tin = NoTimeCall /\ tout = <<>> /\ tpc = "idle"
    /\ items = <<>> /\ sin = NoSearchCall /\ sout = InfoNone(<<>>) /\ spc = "idle"
    /\ disk = NoCatalog /\ cache = NoCatalog /\ built = NoCatalog
    /\ cnow = 0 /\ blog = NoBuild

SaveStepNext ==
    SaveBegin \/ SaveDate \/ SaveWriteLine \/ SaveClose \/ SaveReturn \/ SaveStop

\* ------------------------------------------------ StateTracker.cleanup_marked
\* StateTracker.get_marked_paths
GetMarkedPaths(mrk_files, start, end) ==
    LET dr == ToDateRange(start, end)
        pairs == ReadDailyPairs(mrk_files, dr[1], dr[2])
        paths == [i \in 1 .. Len(pairs) |-> pairs[i][1]]
    IN  Range(FilterBySensingTime(paths, start, end))

\* StateTracker.get_pending_mark_paths; raised: get_downloaded_paths failed
\* with the TypeError of url_to_local_path, and so does the call
GetPendingMarkPaths(dwl_files, mrk_files, start, end, data_dir) ==
    LET downloaded_paths == GetDownloadedPaths(dwl_files, start, end, data_dir)
        marked == GetMarkedPaths(mrk_files, start, end)
    IN  [raised |-> downloaded_paths.raised,
         paths |-> IF downloaded_paths.raised THEN {}
                   ELSE downloaded_paths.paths \ marked]

\* StateTracker.get_deletable_files: the marked paths that exist
GetDeletableFiles(mrk_files, existing) ==
    {p \in GetMarkedPaths(mrk_files, None, None) : p \in existing}

\* cleanup_marked(dry_run): the paths returned and the local paths left;
\* os.remove raises OSError on the paths of failing, which is logged
CleanupMarkedOp(mrk_files, existing, failing, dry_run) ==
    LET deletable == GetDeletableFiles(mrk_files, existing)
    IN  [ret |-> deletable,
         fs |-> IF dry_run THEN existing
                ELSE existing \ {p \in deletable : p \notin failing}]

\* the local files of the cleanup calls
CleanPaths == {PathOf(E1), PathOf(E2), PathOf(A1)}

CleanInit ==
    /\ urlF = NoFiles /\ dwlF = NoFiles /\ mrkF = NoFiles
    /\ dataDir = FALSE /\ calledDl = {}
    /\ fs \in SUBSET CleanPaths
    /\ locked \in SUBSET CleanPaths
    /\ cret = NoCleanup
    /\ errF = <<>> /\ errCalls = 0
    /\ slack = 0 /\ counted = TRUE /\ ptype = "PRODUCT" /\ uret = NoUrlCall
    /\ bis = NoBisect
    /\ dl = NoDownload
    /\ vcall = NoValidated
    /\ tzoff = 0
    /\ sel = NoSelection
    /\ oret = NoOrbitCall
    /\ sv = IdleSavers /\ rf = NoByteFiles /\ overlap = FALSE
    /\ sy = NoSync
    /\ wr = IdleSave
    /\ tin = NoTimeCall /\ tout = <<>> /\ tpc = "idle"
    /\ items = <<>> /\ sin = NoSearchCall /\ sout = InfoNone(<<>>) /\ spc = "idle"
    /\ disk = NoCatalog /\ cache = NoCatalog /\ built = NoCatalog
    /\ cnow = 0 /\ blog = NoBuild

\* mark(path) of a local file
MarkPath ==
    /\ SumLines(mrkF, Days) < MaxAppends
    /\ \E p \in CleanPaths :
          mrkF' = MarkOp(mrkF, p).files
    /\ UNCHANGED <<urlF, dwlF, dataDir, calledDl, fs, locked, cret,
                   timeVars, searchVars, catVars, stepVars, errVars, urlsVars, bisVars, dlVars, valVars, winVars, selVars, orbVars, raceVars, syncVars>>

\* cleanup_marked(dry_run)
CleanupMarked ==
    \E dry_run \in BOOLEAN :
        /\ UNCHANGED <<locked, regVars, timeVars, searchVars, catVars, stepVars, errVars, urlsVars, bisVars, dlVars, valVars, winVars, selVars, orbVars, raceVars, syncVars>>
        /\ fs' = CleanupMarkedOp(mrkF, fs, locked, dry_run).fs
        /\ cret' = [called |-> TRUE, dry_run |-> dry_run,
                    ret |-> CleanupMarkedOp(mrkF, fs, locked, dry_run).ret,
                    fs_before |-> fs, fs_after |-> fs',
                    reg_before |-> <<urlF, dwlF, mrkF>>,
                    reg_after |-> <<urlF', dwlF', mrkF'>>]

CleanNext == MarkPath \/ CleanupMarked

\* ----------------------------------------------- StateTracker.mark_error
\* Text is a sequence of characters: "a" (any ordinary character), "LF",
\* "CR", "BAR" ('|'), "SP" (a blank), "TAB" (any other whitespace that ends
\* no line), "HASH" ('#'), "SEMI" (';'), and "U", which stands for a whole
\* product URL.
MaxErrorText == 3
MaxErrorCalls == 2
\* the length mark_error cuts the message to (200 in the code)
ErrorLimit == 2

ErrorChars == {"a", "LF", "CR", "BAR", "TAB", "HASH"}
ErrorTexts == UNION {[1 .. n -> ErrorChars] : n \in 0 .. MaxErrorText}

\* error.replace("\n", " ").replace("|", ";")[:200]
Sanitize(error) ==
    LET r == [i \in 1 .. Len(error) |->
                 IF error[i] = "LF" THEN "SP"
                 ELSE IF error[i] = "BAR" THEN "SEMI"
                 ELSE error[i]]
    IN  SubSeq(r, 1, Min(Len(r), ErrorLimit))

\* mark_error(url, error): append_line(errors_file, f"{url}|{error}")
MarkErrorOp(chars, error) == chars \o <<"U", "BAR">> \o Sanitize(error) \o <<"LF">>

\* the lines a text-mode file object yields: "\n", "\r" and "\r\n" all end
\* a line (universal newlines)
RECURSIVE FileLines(_, _, _)
FileLines(chars, cur, acc) ==
    IF chars = <<>> THEN (IF cur = <<>> THEN acc ELSE Append(acc, cur))
    ELSE IF Head(chars) = "LF" THEN FileLines(Tail(chars), <<>>, Append(acc, cur))
    ELSE IF Head(chars) = "CR"
    THEN FileLines(IF Len(chars) > 1 /\ chars[2] = "LF" THEN Tail(Tail(chars))
                   ELSE Tail(chars),
                   <<>>, Append(acc, cur))
    ELSE FileLines(Tail(chars), Append(cur, Head(chars)), acc)

\* the characters str.strip() removes
Whitespace == {"SP", "TAB", "LF", "CR"}

\* line.strip()
RECURSIVE Strip(_)
Strip(line) ==
    IF line = <<>> THEN line
    ELSE IF Head(line) \in Whitespace THEN Strip(Tail(line))
    ELSE IF line[Len(line)] \in Whitespace
    THEN Strip(SubSeq(line, 1, Len(line) - 1))
    ELSE line

\* line.split("|", 1): the part before the first '|' and the rest
SplitPair(line) ==
    IF \E i \in 1 .. Len(line) : line[i] = "BAR"
    THEN LET k == CHOOSE i \in 1 .. Len(line) :
                    line[i] = "BAR" /\ \A j \in 1 .. (i - 1) : line[j] # "BAR"
         IN  <<SubSeq(line, 1, k - 1), SubSeq(line, k + 1, Len(line))>>
    ELSE <<line, <<>>>>

\* registry.read_pairs_file on the characters of a file: the stripped lines
\* that are neither empty nor comments
ReadPairsOfText(chars) ==
    LET ls == FileLines(chars, <<>>, <<>>)
        stripped == [i \in 1 .. Len(ls) |-> Strip(ls[i])]
        kept == SelectSeq(stripped, LAMBDA l : l # <<>> /\ Head(l) # "HASH")
    IN  [i \in 1 .. Len(kept) |-> SplitPair(kept[i])]

ErrInit ==
    /\ errF = <<>> /\ errCalls = 0
    /\ slack = 0 /\ counted = TRUE /\ ptype = "PRODUCT" /\ uret = NoUrlCall
    /\ bis = NoBisect
    /\ dl = NoDownload
    /\ vcall = NoValidated
    /\ tzoff = 0
    /\ sel = NoSelection
    /\ oret = NoOrbitCall
    /\ sv = IdleSavers /\ rf = NoByteFiles /\ overlap = FALSE
    /\ sy = NoSync
    /\ urlF = NoFiles /\ dwlF = NoFiles /\ mrkF = NoFiles
    /\ dataDir = FALSE /\ calledDl = {}
    /\ fs = {} /\ locked = {} /\ cret = NoCleanup
    /\ wr = IdleSave
    /\ tin = NoTimeCall /\ tout = <<>> /\ tpc = "idle"
    /\ items = <<>> /\ sin = NoSearchCall /\ sout = InfoNone(<<>>) /\ spc = "idle"
    /\ disk = NoCatalog /\ cache = NoCatalog /\ built = NoCatalog
    /\ cnow = 0 /\ blog = NoBuild

\* mark_error(url, error)
MarkError ==
    /\ errCalls < MaxErrorCalls
    /\ \E error \in ErrorTexts : errF' = MarkErrorOp(errF, error)
    /\ errCalls' = errCalls + 1
    /\ UNCHANGED <<regVars, timeVars, searchVars, catVars, stepVars, cleanVars, urlsVars, bisVars, dlVars, valVars, winVars, selVars, orbVars, raceVars, syncVars>>

ErrNext == MarkError

\* ------------------------------------- search_has_any_product, search_urls
MaxUrlItems == 2
\* granules of two baselines and two processing versions (creation times),
\* sensed at the end of a day; granules sensed at the start of the next day
\* and of a later one; one legacy granule sensed half a second after a
\* 23:59:59.  The backends yield up to MaxUrlItems of them, in any order, and
\* report their matched count.
UrlGranules ==
    {UrlOf("ECA", EndOfDay(1), c, bl) : c \in {0, 1}, bl \in {"BL", "BM"}}
        \cup {Url("ECA", Midnight(2), 0), Url("ECA", Midnight(3), 0),
              Url("AE", EndOfDay(2) + 1, 0)}
UrlBackends ==
    UNION {Orders(S) : S \in {T \in SUBSET UrlGranules : Cardinality(T) <= MaxUrlItems}}
\* no bound, or a day's first or last second, before and inside the mission
UrlTimes ==
    {None} \cup {Midnight(d) : d \in 0 .. (NDays - 3)}
           \cup {EndOfDay(d) : d \in 0 .. (NDays - 3)}

UrlInit ==
    /\ items \in UrlBackends
    /\ sin \in [start : UrlTimes, end : UrlTimes, nows : Readings(2, SearchNows, 0)]
    /\ slack \in {0, DayLen} /\ counted = TRUE
    /\ ptype \in {"PRODUCT"} \cup DEDUP_PRODUCTS
    /\ uret = NoUrlCall
    /\ bis = NoBisect
    /\ dl = NoDownload
    /\ vcall = NoValidated
    /\ tzoff = 0
    /\ sel = NoSelection
    /\ oret = NoOrbitCall
    /\ sv = IdleSavers /\ rf = NoByteFiles /\ overlap = FALSE
    /\ sy = NoSync
    /\ sout = InfoNone(<<>>)
    /\ spc = "in"
    /\ tin = NoTimeCall /\ tout = <<>> /\ tpc = "idle"
    /\ urlF = NoFiles /\ dwlF = NoFiles /\ mrkF = NoFiles
    /\ dataDir = FALSE /\ calledDl = {}
    /\ disk = NoCatalog /\ cache = NoCatalog /\ built = NoCatalog
    /\ cnow = 0 /\ blog = NoBuild
    /\ wr = IdleSave
    /\ fs = {} /\ locked = {} /\ cret = NoCleanup
    /\ errF = <<>> /\ errCalls = 0

\* the baselines the callers ask for
UrlBaselines == {"BL", "BM"}

\* searcher.search_has_any_product(collection, ptype, baseline, start, end)
CallSearchHasAnyProduct ==
    /\ spc = "in"
    /\ \E baseline \in UrlBaselines :
        \E found \in {StacSearch(items, baseline, sin.start, sin.end)} :
          uret' = [op |-> "search_has_any_product", baseline |-> baseline,
                   has_any |-> SearchHasAnyProductOf(
                                   found, SearchItems(found, HasAnyMaxItems),
                                   ptype, sin.start, sin.end),
                   urls |-> <<>>, page |-> SearchItems(found, HasAnyMaxItems)]
    /\ spc' = "search_has_any_product"
    /\ UNCHANGED <<items, sin, sout, slack, counted, ptype,
                   timeVars, regVars, catVars, stepVars, cleanVars, errVars, bisVars, dlVars, valVars, winVars, selVars, orbVars, raceVars, syncVars>>

\* searcher.search_urls(collection, ptype, baseline, start, end), with a
\* baseline or without one
CallSearchUrls ==
    /\ spc = "in"
    /\ \E baseline \in {""} \cup UrlBaselines :
          uret' = [op |-> "search_urls", baseline |-> baseline,
                   has_any |-> FALSE, page |-> <<>>,
                   urls |-> SearchUrls(items, ptype, baseline, sin.start, sin.end,
                                       <<tzoff, tzoff>>, sin.nows)]
    /\ spc' = "search_urls"
    /\ UNCHANGED <<items, sin, sout, slack, counted, ptype,
                   timeVars, regVars, catVars, stepVars, cleanVars, errVars, bisVars, dlVars, valVars, winVars, selVars, orbVars, raceVars, syncVars>>

UrlNext == CallSearchHasAnyProduct \/ CallSearchUrls

\* search_urls for callers of any timezone: granules sensed in the first and
\* the last second of a day, ranges that start or end in the first two or the
\* last second of a day, and a caller west of, at or east of Greenwich
ZoneUrlGranules ==
    {Url("ECA", Midnight(d), 0) : d \in 1 .. 3}
        \cup {Url("ECA", EndOfDay(d), 0) : d \in 1 .. 3}
ZoneUrlBackends ==
    UNION {Orders(S) : S \in {T \in SUBSET ZoneUrlGranules : Cardinality(T) <= MaxUrlItems}}
ZoneUrlTimes ==
    {None} \cup {Midnight(d) : d \in 1 .. (NDays - 2)}
           \cup {Midnight(d) + OneSecond : d \in 1 .. (NDays - 2)}
           \cup {EndOfDay(d) : d \in 1 .. (NDays - 2)}

ZoneUrlInit ==
    /\ items \in ZoneUrlBackends
    /\ sin \in [start : ZoneUrlTimes, end : ZoneUrlTimes,
                nows : Readings(2, SearchNows, 0)]
    /\ slack \in {0, DayLen} /\ counted = TRUE
    /\ ptype = "PRODUCT"
    /\ uret = NoUrlCall
    /\ bis = NoBisect
    /\ dl = NoDownload
    /\ vcall = NoValidated
    /\ tzoff \in TzOffsets
    /\ sel = NoSelection
    /\ oret = NoOrbitCall
    /\ sv = IdleSavers /\ rf = NoByteFiles /\ overlap = FALSE
    /\ sy = NoSync
    /\ sout = InfoNone(<<>>)
    /\ spc = "in"
    /\ tin = NoTimeCall /\ tout = <<>> /\ tpc = "idle"
    /\ urlF = NoFiles /\ dwlF = NoFiles /\ mrkF = NoFiles
    /\ dataDir = FALSE /\ calledDl = {}
    /\ disk = NoCatalog /\ cache = NoCatalog /\ built = NoCatalog
    /\ cnow = 0 /\ blog = NoBuild
    /\ wr = IdleSave
    /\ fs = {} /\ locked = {} /\ cret = NoCleanup
    /\ errF = <<>> /\ errCalls = 0

ZoneUrlNext == CallSearchUrls

\* search_has_any_product on backends that match more items than max_items,
\* yield them in any order and may not report their matched count: up to
\* MaxCapItems granules of one baseline, sensed in the first and the last
\* second of three days, and windows of whole seconds or without a bound
MaxCapItems == 3
CapGranules ==
    {Url("ECA", t, 0) : t \in {Midnight(2), EndOfDay(2), Midnight(3), EndOfDay(3),
                               Midnight(4)}}
CapBackends ==
    UNION {Orders(S) : S \in {T \in SUBSET CapGranules : Cardinality(T) <= MaxCapItems}}
CapTimes == {None, Midnight(2), EndOfDay(2), Midnight(3), EndOfDay(3)}

CapInit ==
    /\ items \in CapBackends
    /\ sin \in [start : CapTimes, end : CapTimes, nows : {<<>>}]
    /\ slack \in {0, DayLen} /\ counted \in BOOLEAN
    /\ ptype = "PRODUCT"
    /\ uret = NoUrlCall
    /\ bis = NoBisect
    /\ dl = NoDownload
    /\ vcall = NoValidated
    /\ tzoff = 0
    /\ sel = NoSelection
    /\ oret = NoOrbitCall
    /\ sv = IdleSavers /\ rf = NoByteFiles /\ overlap = FALSE
    /\ sy = NoSync
    /\ sout = InfoNone(<<>>)
    /\ spc = "in"
    /\ tin = NoTimeCall /\ tout = <<>> /\ tpc = "idle"
    /\ urlF = NoFiles /\ dwlF = NoFiles /\ mrkF = NoFiles
    /\ dataDir = FALSE /\ calledDl = {}
    /\ disk = NoCatalog /\ cache = NoCatalog /\ built = NoCatalog
    /\ cnow = 0 /\ blog = NoBuild
    /\ wr = IdleSave
    /\ fs = {} /\ locked = {} /\ cret = NoCleanup
    /\ errF = <<>> /\ errCalls = 0

CapNext == CallSearchHasAnyProduct

\* ------------------- the binary searches of search_product_info_range
MaxBisectDays == 9
BisectTimes ==
    {Midnight(d) : d \in 1 .. MaxBisectDays}
        \cup {EndOfDay(d) : d \in 1 .. MaxBisectDays}
\* one or two granules, each sensed in the first second of a day or, on the
\* first days, in the last second or (legacy names) in the fraction after it
BisectGranules ==
    {Url("ECA", Midnight(d), 0) : d \in 1 .. MaxBisectDays}
        \cup {Url("ECA", EndOfDay(d), 0) : d \in 1 .. 3}
        \cup {Url("AE", EndOfDay(d) + 1, 0) : d \in 1 .. 3}
BisectBackends ==
    UNION {Orders(S) : S \in {T \in SUBSET BisectGranules : Cardinality(T) \in {1, 2}}}

\* sin holds the resolved range (t0, t1) of the call, datetimes of the
\* caller's timezone
BisectInit ==
    /\ items \in BisectBackends
    /\ sin \in {r \in [start : BisectTimes, end : BisectTimes, nows : {<<>>}] :
                    r.start <= r.end}
    /\ slack \in {0, DayLen} /\ counted = TRUE
    /\ bis = NoBisect
    /\ dl = NoDownload
    /\ vcall = NoValidated
    /\ tzoff \in TzOffsets
    /\ sel = NoSelection
    /\ oret = NoOrbitCall
    /\ sv = IdleSavers /\ rf = NoByteFiles /\ overlap = FALSE
    /\ sy = NoSync
    /\ ptype = "PRODUCT" /\ uret = NoUrlCall
    /\ sout = InfoNone(<<>>)
    /\ spc = "in"
    /\ tin = NoTimeCall /\ tout = <<>> /\ tpc = "idle"
    /\ urlF = NoFiles /\ dwlF = NoFiles /\ mrkF = NoFiles
    /\ dataDir = FALSE /\ calledDl = {}
    /\ disk = NoCatalog /\ cache = NoCatalog /\ built = NoCatalog
    /\ cnow = 0 /\ blog = NoBuild
    /\ wr = IdleSave
    /\ fs = {} /\ locked = {} /\ cret = NoCleanup
    /\ errF = <<>> /\ errCalls = 0

\* search_product_info_range from the quick exit to the end of the second
\* binary search, for datetimes of the caller's timezone; a call whose first
\* binary search never ends does not start the second, and a call whose
\* binary search never ends does not return
RunBinarySearches ==
    /\ spc = "in"
    /\ bis' = IF ~SearchHasAnyProduct(items, ptype, "BL", sin.start, sin.end)
              THEN [op |-> "no data", first |-> <<>>, last |-> <<>>,
                    first_day |-> None, last_day |-> None]
              ELSE LET f == FindFirstDay(items, ptype, "BL", sin.start, sin.start,
                                         sin.end, <<tzoff, tzoff>>, NoDay)
                       l == FindLastDay(items, ptype, "BL", sin.end, sin.start,
                                        sin.end, <<tzoff, tzoff>>, NoDay)
                   IN  IF f.hangs
                       THEN [op |-> "hangs", first |-> f.probes, last |-> <<>>,
                             first_day |-> f.day, last_day |-> None]
                       ELSE IF l.hangs
                       THEN [op |-> "hangs", first |-> f.probes, last |-> l.probes,
                             first_day |-> f.day, last_day |-> l.day]
                       ELSE [op |-> "searched", first |-> f.probes, last |-> l.probes,
                             first_day |-> f.day, last_day |-> l.day]
    /\ spc' = IF bis'.op = "hangs" THEN "hangs" ELSE "search_product_info_range"
    /\ UNCHANGED <<items, sin, sout, urlsVars,
                   timeVars, regVars, catVars, stepVars, cleanVars, errVars, dlVars, valVars, winVars, selVars, orbVars, raceVars, syncVars>>

BisectNext == RunBinarySearches

\* ------------------------------------------------------- the downloads
\* out_dir / filename
FlatOf(u) == [u EXCEPT !.kind = "flat"]

\* DownloadManager.batch_download: st holds the results dict (its URLs), the
\* files that exist, the download files of the tracker and the URLs whose
\* request was sent.  denied are the URLs for which get_auth_headers raises
\* AuthenticationError in download_file, before the try: the exception is no
\* DownloadError, so it leaves the loop and the call (st.raised), with the
\* files and the records of the URLs handled before.  failing are the URLs
\* on which download_file raises DownloadError, and st.breaking those of them
\* whose transfer breaks in the stream, after open(output_path, "wb"),
\* leaving the file with the content received so far; tracked: on_download is
\* tracker.mark_downloaded
RECURSIVE BatchDownload(_, _, _, _, _, _)
BatchDownload(urls, st, failing, denied, skip_existing, tracked) ==
    IF urls = <<>> THEN st
    ELSE LET url == Head(urls)
             output_path == PathOf(url)
             marked == IF tracked
                       THEN MarkDownloadedOp(st.dwl, url, output_path, TRUE).files
                       ELSE st.dwl
         IN  IF ExtractSensingTime(url) = None
             THEN BatchDownload(Tail(urls), st, failing, denied, skip_existing, tracked)
             ELSE IF skip_existing /\ output_path \in st.fs
             THEN BatchDownload(Tail(urls),
                                [st EXCEPT !.results = @ \cup {url}, !.dwl = marked],
                                failing, denied, skip_existing, tracked)
             ELSE IF url \in denied
             THEN [st EXCEPT !.raised = TRUE]
             ELSE IF url \in failing
             THEN BatchDownload(Tail(urls),
                                [st EXCEPT !.attempted = @ \cup {url},
                                           !.fs = IF url \in st.breaking
                                                  THEN @ \cup {output_path} ELSE @],
                                failing, denied, skip_existing, tracked)
             ELSE BatchDownload(Tail(urls),
                                [st EXCEPT !.attempted = @ \cup {url},
                                           !.results = @ \cup {url},
                                           !.fs = @ \cup {output_path},
                                           !.dwl = marked],
                                failing, denied, skip_existing, tracked)

\* MaapClient.download with out_dir: the loop over the URLs; its try catches
\* every Exception of download_file, the AuthenticationError of a denied URL
\* as well as the DownloadError of a failing one
RECURSIVE DownloadFlat(_, _, _, _, _)
DownloadFlat(urls, st, failing, denied, skip_existing) ==
    IF urls = <<>> THEN st
    ELSE LET url == Head(urls)
             output_path == FlatOf(url)
         IN  IF skip_existing /\ output_path \in st.fs
             THEN DownloadFlat(Tail(urls),
                               [st EXCEPT !.skipped = Append(@, url)],
                               failing, denied, skip_existing)
             ELSE IF url \in denied
             THEN DownloadFlat(Tail(urls),
                               [st EXCEPT !.errors = Append(@, [about |-> url,
                                                                kind |-> "auth"])],
                               failing, denied, skip_existing)
             ELSE IF url \in failing
             THEN DownloadFlat(Tail(urls),
                               [st EXCEPT !.attempted = @ \cup {url},
                                          !.fs = IF url \in st.breaking
                                                 THEN @ \cup {output_path} ELSE @,
                                          !.errors = Append(@, [about |-> url,
                                                                kind |-> "download"])],
                               failing, denied, skip_existing)
             ELSE DownloadFlat(Tail(urls),
                               [st EXCEPT !.attempted = @ \cup {url},
                                          !.results = @ \cup {url},
                                          !.fs = @ \cup {output_path}],
                               failing, denied, skip_existing)

\* whether download can group the URL: product and baseline of its basename
Groupable(url) == ExtractProduct(url) # "" /\ ExtractBaseline(url, FALSE) # ""

\* MaapClient.download without out_dir: the URLs of the one (product,
\* baseline) group, add_urls on its tracker, then batch_download, all in one
\* try: an exception of add_urls or of batch_download becomes the error of
\* the group, and result.downloaded.update is not reached, so the files
\* batch_download transferred before the exception are on disk and recorded
\* by on_download but missing from the result
DownloadStructured(urls, st, failing, denied, skip_existing, track_state) ==
    LET group_urls == SelectSeq(urls, Groupable)
        ungrouped == SelectSeq(urls, LAMBDA u : ~Groupable(u))
        st1 == [st EXCEPT !.errors =
                   [i \in 1 .. Len(ungrouped) |->
                       [about |-> ungrouped[i], kind |-> "extract"]]]
        added == IF track_state THEN AddUrlsOp(st.url, group_urls, TRUE)
                 ELSE [files |-> st.url, ret |-> 0, raised |-> FALSE]
        st2 == [st1 EXCEPT !.url = added.files]
        run == BatchDownload(group_urls, st2, failing, denied, skip_existing,
                             track_state)
    IN  IF group_urls = <<>> THEN st1
        ELSE IF added.raised
        THEN [st2 EXCEPT !.errors = Append(@, [about |-> Empty, kind |-> "group"])]
        ELSE IF run.raised
        THEN [run EXCEPT !.results = st2.results,
                         !.errors = Append(@, [about |-> Empty, kind |-> "group"]),
                         !.raised = FALSE]
        ELSE run

\* MaapClient.download: the DownloadResult and the files, the registry and the
\* transfers tried after the call.  creds: whether _get_downloader finds the
\* credentials; it is called outside every try of download, so without them
\* the call raises CredentialsError (raised) before any URL is handled
DownloadOp(urls, out_dir, track_state, skip_existing, dry_run, failing, breaking, denied, creds, existing, url_files, dwl_files) ==
    LET st == [results |-> {}, skipped |-> <<>>, errors |-> <<>>,
               attempted |-> {}, fs |-> existing, breaking |-> breaking,
               url |-> url_files, dwl |-> dwl_files, raised |-> FALSE]
    IN  IF urls = <<>> THEN st
        ELSE IF dry_run THEN [st EXCEPT !.skipped = urls]
        ELSE IF ~creds THEN [st EXCEPT !.raised = TRUE]
        ELSE IF out_dir THEN DownloadFlat(urls, st, failing, denied, skip_existing)
        ELSE DownloadStructured(urls, st, failing, denied, skip_existing, track_state)

\* MaapClient.load_from_registry without a time range
LoadFromRegistry(url_files) ==
    DictKeys(ReadDailyPairs(url_files, None, None), <<>>)

\* the files a call may find: the flat and the structured copy of E1
DownloadPaths == {PathOf(E1), FlatOf(E1)}

\* the registry is one earlier add_urls calls of the client's tracker left
DownloadInit ==
    /\ urlF \in {AddUrlsOp(NoFiles, L, TRUE).files : L \in UrlLists}
    /\ dwlF = NoFiles /\ mrkF = NoFiles
    /\ dataDir = TRUE /\ calledDl = {}
    /\ fs \in SUBSET DownloadPaths
    /\ locked = {} /\ cret = NoCleanup
    /\ dl = NoDownload
    /\ vcall = NoValidated
    /\ tzoff = 0
    /\ sel = NoSelection
    /\ oret = NoOrbitCall
    /\ sv = IdleSavers /\ rf = NoByteFiles /\ overlap = FALSE
    /\ sy = NoSync
    /\ errF = <<>> /\ errCalls = 0
    /\ slack = 0 /\ counted = TRUE /\ ptype = "PRODUCT" /\ uret = NoUrlCall
    /\ bis = NoBisect
    /\ wr = IdleSave
    /\ tin = NoTimeCall /\ tout = <<>> /\ tpc = "idle"
    /\ items = <<>> /\ sin = NoSearchCall /\ sout = InfoNone(<<>>) /\ spc = "idle"
    /\ disk = NoCatalog /\ cache = NoCatalog /\ built = NoCatalog
    /\ cnow = 0 /\ blog = NoBuild

\* the state after a download call and the record of the call; a call that
\* raised returns no DownloadResult
DownloadCall(op, urls, out_dir, track_state, skip_existing, dry_run, failing, denied, r) ==
    /\ urlF' = r.url
    /\ dwlF' = r.dwl
    /\ fs' = r.fs
    /\ dl' = [op |-> op, urls |-> urls, out_dir |-> out_dir,
              track_state |-> track_state, skip_existing |-> skip_existing,
              dry_run |-> dry_run, failing |-> failing, denied |-> denied,
              raised |-> r.raised, fs_before |-> fs,
              attempted |-> r.attempted,
              result |-> IF r.raised THEN NoResult
                         ELSE [downloaded |-> r.results, skipped |-> r.skipped,
                               errors |-> r.errors]]
    /\ UNCHANGED <<mrkF, dataDir, calledDl, locked, cret, timeVars, searchVars,
                   catVars, stepVars, errVars, urlsVars, bisVars, valVars, winVars, selVars, orbVars, raceVars, syncVars>>

\* the URLs a download call may be handed
DownloadUrls == {E1, E2, A1}

\* what the servers do to the URLs of one call: denied, failing and breaking
\* as in BatchDownload; a denied URL's request is never sent, so it cannot
\* fail, and without credentials no URL is reached
Outcomes(urls, creds) ==
    IF ~creds THEN {[denied |-> {}, failing |-> {}, breaking |-> {}]}
    ELSE UNION {UNION {[denied : {d}, failing : {f}, breaking : SUBSET f] :
                          f \in SUBSET (urls \ d)} :
                   d \in SUBSET urls}

\* client.download(urls, collection, out_dir, track_state, skip_existing, dry_run)
Download ==
    /\ dl.op = "none"
    /\ \E urls \in UrlLists, creds, out_dir, track_state, skip_existing,
          dry_run \in BOOLEAN :
          \E o \in Outcomes(DownloadUrls, creds) :
          \E r \in {DownloadOp(urls, out_dir, track_state, skip_existing,
                               dry_run, o.failing, o.breaking, o.denied, creds,
                               fs, urlF, dwlF)} :
              DownloadCall("download", urls, out_dir, track_state,
                           skip_existing, dry_run, o.failing, o.denied, r)

\* client.download_from_registry(collection, product, baseline, out_dir=...)
DownloadFromRegistry ==
    /\ dl.op = "none"
    /\ \E creds, out_dir, skip_existing, dry_run \in BOOLEAN :
          \E o \in Outcomes(DownloadUrls, creds), urls \in {LoadFromRegistry(urlF)} :
              \E r \in {DownloadOp(urls, out_dir, TRUE, skip_existing,
                                   dry_run, o.failing, o.breaking, o.denied,
                                   creds, fs, urlF, dwlF)} :
                  DownloadCall("download_from_registry", urls, out_dir, TRUE,
                               skip_existing, dry_run, o.failing, o.denied, r)

DownloadNext == Download \/ DownloadFromRegistry

\* ------------------------------------- the validation of the client's calls
\* A datetime argument: given is FALSE for None, otherwise t is its instant
\* and aware tells whether it carries a timezone; orbit is "" (None) or an
\* orbit+frame string.
ArgTimes ==
    {NoArg} \cup [given : {TRUE}, t : {Midnight(1), Midnight(2)}, aware : BOOLEAN]
Orbits == {"", "01234A"}

\* MaapClient._validate_time_range: TRUE when it raises InvalidRequestError
ValidateTimeRange(start, end, orbit) ==
    \/ (start.given /\ ~start.aware)
    \/ (end.given /\ ~end.aware)
    \/ (orbit # "" /\ (start.given \/ end.given))
    \/ (start.given /\ end.given /\ start.t > end.t)

\* the backend of the calls: a granule sensed at the start of the mission
\* and one sensed a day later; the clock of the calls stands after the end of
\* the mission; the registry, the data directory and the built catalog are
\* empty, the credentials are there and every transfer succeeds
ValidationBackend == <<Url("ECA", Midnight(1), 0), Url("ECA", Midnight(2), 0)>>
ValidationNow == Midnight(NDays - 1)

\* None, or the instant of a datetime argument
TimeOf(arg) == IF arg.given THEN arg.t ELSE None

\* the range sync goes on with: the last three days when neither bound is
\* given, up to now when start alone is given; an end given alone leaves
\* start None
SyncRange(start, end) ==
    IF ~start.given /\ ~end.given
    THEN <<ValidationNow - 3 * DayLen, ValidationNow>>
    ELSE IF start.given /\ ~end.given THEN <<start.t, ValidationNow>>
    ELSE <<TimeOf(start), end.t>>

\* the windows and the URLs of the day-by-day search of sync
SyncWindows(start, end) ==
    IterDayWindows(SyncRange(start, end)[1], SyncRange(start, end)[2], UTC,
                   ValidationNow)
SyncUrls(start, end) ==
    SearchUrlsDays(ValidationBackend, "PRODUCT", "BL", SyncWindows(start, end))

\* the statements of the four methods that raise, send requests or write
\* files, in the order of the source; try: the statement stands in the try
\* block of the method, whose except clause logs the exception and goes on
\* behind the block.  An orbit search loads the queryables of the collection
\* and asks them whether the collection can be searched by orbit before it
\* searches; a sync without a baseline lists the baselines of the queryables
\* first, and logs to_zulu(start) before it searches
Stmt(name) == [name |-> name, try |-> FALSE]
Tried(name) == [name |-> name, try |-> TRUE]

Statements(op, orbit, baseline) ==
    CASE op = "search" ->
            IF orbit # ""
            THEN <<Stmt("_validate_time_range"), Stmt("catalog.load"),
                   Stmt("supports_orbit"), Stmt("search_urls_by_orbit")>>
            ELSE <<Stmt("_validate_time_range"), Stmt("search_urls")>>
      [] op = "sync" ->
            <<Stmt("_validate_time_range")>>
                \o (IF baseline THEN <<>> ELSE <<Stmt("catalog.load")>>)
                \o <<Stmt("to_zulu"), Stmt("search_urls_iter_day"),
                     Stmt("add_urls"), Tried("batch_download")>>
      [] op = "load_from_registry" ->
            <<Stmt("_validate_time_range"), Stmt("read_daily_pairs")>>
      [] op = "build_catalog" ->
            <<Stmt("_validate_time_range"), Tried("catalog.load"),
              Tried("build"), Tried("save")>>

\* one statement: the exception it raises ("": none) and what it does before
\* it returns or raises, requests to the backend ("network") and files
\* written ("write").  env tells whether the queryables of the collection
\* are in the cache or on disk (stored), whether the request for them
\* succeeds (fetch_ok) and whether they list orbitNumber (supports)
Execute(stmt, start, end, orbit, env) ==
    CASE stmt = "_validate_time_range" ->
            [raised |-> IF ValidateTimeRange(start, end, orbit)
                        THEN "InvalidRequestError" ELSE "",
             effects |-> {}]
      [] stmt = "catalog.load" ->
            IF env.stored THEN [raised |-> "", effects |-> {}]
            ELSE IF ~env.fetch_ok
            THEN [raised |-> "CatalogError", effects |-> {"network"}]
            ELSE [raised |-> "", effects |-> {"network", "write"}]
      [] stmt = "supports_orbit" ->
            [raised |-> IF env.supports THEN "" ELSE "InvalidRequestError",
             effects |-> {}]
      [] stmt = "to_zulu" ->
            [raised |-> IF SyncRange(start, end)[1] = None
                        THEN "AttributeError" ELSE "",
             effects |-> {}]
      [] stmt = "search_urls_iter_day" ->
            [raised |-> "",
             effects |-> IF SyncWindows(start, end) = <<>> THEN {}
                         ELSE {"network"}]
      [] stmt = "add_urls" ->
            [raised |-> "",
             effects |-> IF SyncUrls(start, end) = <<>> THEN {} ELSE {"write"}]
      [] stmt = "batch_download" ->
            [raised |-> "",
             effects |-> IF SyncUrls(start, end) = <<>> THEN {}
                         ELSE {"network", "write"}]
      [] stmt = "search_urls" ->
            [raised |-> "",
             effects |-> IF SearchUrlsQueries(ValidationBackend, "BL",
                                              TimeOf(start), TimeOf(end), UTC,
                                              <<ValidationNow, ValidationNow>>) = 0
                         THEN {} ELSE {"network"}]
      [] stmt = "search_urls_by_orbit" -> [raised |-> "", effects |-> {"network"}]
      \* the built catalog has no entry of the baseline, so the range asked
      \* for is fetched, and get_baseline_info starts with a request
      [] stmt = "build" -> [raised |-> "", effects |-> {"network"}]
      [] stmt = "save" -> [raised |-> "", effects |-> {"write"}]
      [] stmt = "read_daily_pairs" -> [raised |-> "", effects |-> {}]

\* the statements run one after the other; an exception raised outside the
\* try block leaves the method, one raised inside it is caught and the
\* method goes on behind the block
RECURSIVE RunStatements(_, _, _, _, _, _)
RunStatements(stmts, start, end, orbit, env, effects) ==
    IF stmts = <<>> THEN [raised |-> "", effects |-> effects]
    ELSE LET r == Execute(Head(stmts).name, start, end, orbit, env)
         IN  IF r.raised = ""
             THEN RunStatements(Tail(stmts), start, end, orbit, env,
                                effects \cup r.effects)
             ELSE IF Head(stmts).try
             THEN RunStatements(SelectSeq(Tail(stmts), LAMBDA t : ~t.try),
                                start, end, orbit, env, effects \cup r.effects)
             ELSE [raised |-> r.raised, effects |-> effects \cup r.effects]

\* what the queryables of the collection may be when a method is called
Queryables == [stored : BOOLEAN, fetch_ok : BOOLEAN, supports : BOOLEAN]

\* what the call would raise and do, had the method validated after its
\* first other statement
LateCallOutcome(op, start, end, orbit, baseline, env) ==
    LET stmts == Statements(op, orbit, baseline)
    IN  RunStatements(<<stmts[2], stmts[1]>> \o SubSeq(stmts, 3, Len(stmts)),
                      start, end, orbit, env, {})

\* what a call of one of the four methods raises and does
CallOutcome(op, start, end, orbit, baseline, env) ==
    RunStatements(Statements(op, orbit, baseline), start, end, orbit, env, {})

\* a call of one of the four methods on a client that is in no call,
\* baseline telling whether a baseline is given
ValidatedCall(op, start, end, orbit, baseline, env) ==
    LET r == CallOutcome(op, start, end, orbit, baseline, env)
    IN  /\ vcall.op = "none"
        /\ vcall' = [op |-> op, start |-> start, end |-> end, orbit |-> orbit,
                     baseline |-> baseline, env |-> env, raised |-> r.raised,
                     effects |-> r.effects]
        /\ UNCHANGED <<timeVars, regVars, searchVars, catVars, stepVars,
                       cleanVars, errVars, urlsVars, bisVars, dlVars, winVars, selVars, orbVars, raceVars, syncVars>>

ValidationInit ==
    /\ vcall = NoValidated
    /\ tzoff = 0
    /\ sel = NoSelection
    /\ oret = NoOrbitCall
    /\ sv = IdleSavers /\ rf = NoByteFiles /\ overlap = FALSE
    /\ sy = NoSync
    /\ dl = NoDownload
    /\ urlF = NoFiles /\ dwlF = NoFiles /\ mrkF = NoFiles
    /\ dataDir = FALSE /\ calledDl = {}
    /\ fs = {} /\ locked = {} /\ cret = NoCleanup
    /\ errF = <<>> /\ errCalls = 0
    /\ slack = 0 /\ counted = TRUE /\ ptype = "PRODUCT" /\ uret = NoUrlCall
    /\ bis = NoBisect
    /\ wr = IdleSave
    /\ tin = NoTimeCall /\ tout = <<>> /\ tpc = "idle"
    /\ items = <<>> /\ sin = NoSearchCall /\ sout = InfoNone(<<>>) /\ spc = "idle"
    /\ disk = NoCatalog /\ cache = NoCatalog /\ built = NoCatalog
    /\ cnow = 0 /\ blog = NoBuild

\* client.search(collection, product, baseline=, start=, end=, orbit=)
ClientSearch ==
    \E start, end \in ArgTimes, orbit \in Orbits, baseline \in BOOLEAN,
       env \in Queryables :
        ValidatedCall("search", start, end, orbit, baseline, env)

\* client.sync(collection, product, baseline=, start=, end=)
ClientSync ==
    \E start, end \in ArgTimes, baseline \in BOOLEAN, env \in Queryables :
        ValidatedCall("sync", start, end, "", baseline, env)

\* client.load_from_registry(collection, product, baseline=, start=, end=)
ClientLoadFromRegistry ==
    \E start, end \in ArgTimes, baseline \in BOOLEAN, env \in Queryables :
        ValidatedCall("load_from_registry", start, end, "", baseline, env)

\* client.build_catalog(collection, product, baseline=, start=, end=)
ClientBuildCatalog ==
    \E start, end \in ArgTimes, baseline \in BOOLEAN, env \in Queryables :
        ValidatedCall("build_catalog", start, end, "", baseline, env)

\* the call is over: the client, on a fresh environment, is in no call
ValidationReturn ==
    /\ vcall.op # "none"
    /\ vcall' = NoValidated
    /\ UNCHANGED <<timeVars, regVars, searchVars, catVars, stepVars,
                   cleanVars, errVars, urlsVars, bisVars, dlVars, winVars, selVars, orbVars, raceVars, syncVars>>

ValidationNext ==
    \/ ClientSearch \/ ClientSync \/ ClientLoadFromRegistry \/ ClientBuildCatalog
    \/ ValidationReturn

\* ------------------------------------------- builds over widening ranges
\* the bounds of the ranges: the first and the last second of a day
WidenTimes ==
    {Midnight(d) : d \in 2 .. 3} \cup {EndOfDay(d) : d \in 2 .. 3}

\* an exact backend that does not change, and no catalog yet
WidenInit ==
    /\ items \in CatBackends
    /\ slack = 0 /\ counted = TRUE
    /\ disk = NoCatalog /\ cache = NoCatalog /\ built = NoCatalog
    /\ cnow = Midnight(NDays - 1)
    /\ blog = NoBuild
    /\ wr = IdleSave
    /\ fs = {} /\ locked = {} /\ cret = NoCleanup
    /\ errF = <<>> /\ errCalls = 0
    /\ ptype = "PRODUCT" /\ uret = NoUrlCall
    /\ bis = NoBisect
    /\ dl = NoDownload
    /\ vcall = NoValidated
    /\ tzoff = 0
    /\ sel = NoSelection
    /\ oret = NoOrbitCall
    /\ sv = IdleSavers /\ rf = NoByteFiles /\ overlap = FALSE
    /\ sy = NoSync
    /\ sin = NoSearchCall /\ sout = InfoNone(<<>>) /\ spc = "idle"
    /\ tin = NoTimeCall /\ tout = <<>> /\ tpc = "idle"
    /\ urlF = NoFiles /\ dwlF = NoFiles /\ mrkF = NoFiles
    /\ dataDir = FALSE /\ calledDl = {}

\* client.build_catalog(collection, start=, end=) over a range that contains
\* the range of the build before: a new manager builds without force and
\* saves the catalog
BuildCatalogWider ==
    \E start, end \in WidenTimes :
      /\ start <= end
      /\ blog.op # "none" => (start <= blog.start /\ blog.end <= end)
      /\ blog.op # "none" => (start # blog.start \/ end # blog.end)
      /\ \E ready \in BuildNows(BuildClock, cnow) :
          \E r \in {BuildOp(NoCatalog, disk, items, start, end, <<tzoff, tzoff>>, FALSE,
                            ready)} :
           \E nows \in {SubSeq(ready, 1, r.reads)} :
            /\ disk' = r.catalog
            /\ cache' = NoCatalog
            /\ built' = r.catalog
            /\ blog' = [op |-> "build_catalog", force |-> FALSE, start |-> start,
                        end |-> end, nows |-> nows,
                        cached |-> FALSE,
                        existing |-> r.existing, result |-> r.catalog,
                        to_fetch |-> r.to_fetch, queries |-> r.queries,
                        hangs |-> r.hangs, builds |-> blog.builds + 1]
            /\ UNCHANGED <<cnow, timeVars, regVars, searchVars, stepVars, cleanVars, errVars, urlsVars, bisVars, dlVars, valVars, winVars, selVars, orbVars, raceVars, syncVars>>

WidenNext == BuildCatalogWider

\* --------------------------------------------- the registry read in windows
\* the bounds of the windows asked for
WindowTimes == Midnight(1) .. (Midnight(3) - 1)

\* a fresh registry directory, and a caller in one timezone
WindowInit ==
    /\ urlF = NoFiles /\ dwlF = NoFiles /\ mrkF = NoFiles
    /\ dataDir \in BOOLEAN
    /\ calledDl = {}
    /\ tin = NoTimeCall /\ tout = <<>> /\ tpc = "idle"
    /\ items = <<>> /\ sin = NoSearchCall /\ sout = InfoNone(<<>>) /\ spc = "idle"
    /\ disk = NoCatalog /\ cache = NoCatalog /\ built = NoCatalog
    /\ cnow = 0 /\ blog = NoBuild
    /\ wr = IdleSave
    /\ fs = {} /\ locked = {} /\ cret = NoCleanup
    /\ errF = <<>> /\ errCalls = 0
    /\ slack = 0 /\ counted = TRUE /\ ptype = "PRODUCT" /\ uret = NoUrlCall
    /\ bis = NoBisect
    /\ dl = NoDownload
    /\ vcall = NoValidated
    /\ tzoff \in TzOffsets
    /\ sel = NoSelection
    /\ oret = NoOrbitCall
    /\ sv = IdleSavers /\ rf = NoByteFiles /\ overlap = FALSE
    /\ sy = NoSync

\* ------------------------------------- the baselines a build updates
MaxBaselines == 2
MaxFilter == 2

\* a baseline name: the rank of its upper-case form in alphabetical order,
\* and whether it is written in lower case
BaselineNames == [id : 1 .. MaxBaselines, lower : BOOLEAN]
\* str.upper()
Upper(b) == [b EXCEPT !.lower = FALSE]

\* sorted(names): by code point, upper case before lower case
RECURSIVE SortedNames(_)
SortedNames(S) ==
    IF S = {} THEN <<>>
    ELSE LET m == CHOOSE x \in S : \A y \in S :
                      \/ (~x.lower /\ y.lower)
                      \/ (x.lower = y.lower /\ x.id <= y.id)
         IN  <<m>> \o SortedNames(S \ {m})

\* CatalogQueryables.list_baselines: the productVersion enum, upper-cased, sorted
ListBaselines(enum) == SortedNames({Upper(b) : b \in enum})

\* MaapSearcher.search_baselines(mode="all"): the candidates of the
\* queryables for which search_has_any_product finds data, sorted
SearchBaselines(enum, with_data) ==
    SortedNames({b \in Range(ListBaselines(enum)) : b \in with_data})

\* a selection in which the latest-baseline flag goes before the filter
BaselinesToUpdateLatestFirst(enum, existing, with_data, baselines_filter, latest_baseline) ==
    IF latest_baseline
    THEN (IF existing # {}
          THEN <<SortedNames(existing)[Cardinality(existing)]>>
          ELSE IF SearchBaselines(enum, with_data) # <<>>
          THEN <<SearchBaselines(enum, with_data)[Len(SearchBaselines(enum, with_data))]>>
          ELSE <<>>)
    ELSE IF baselines_filter # {}
    THEN SelectSeq(ListBaselines(enum),
                   LAMBDA b : Upper(b) \in {Upper(f) : f \in baselines_filter})
    ELSE ListBaselines(enum)

\* CatalogCollectionManager.build, the baselines to update of one product:
\* existing are the baselines of the product in the catalog, baselines_filter
\* is empty when the caller gave none
BaselinesToUpdate(enum, existing, with_data, baselines_filter, latest_baseline) ==
    IF baselines_filter # {}
    THEN SelectSeq(ListBaselines(enum),
                   LAMBDA b : Upper(b) \in {Upper(f) : f \in baselines_filter})
    ELSE IF latest_baseline
    THEN (IF existing # {}
          THEN <<SortedNames(existing)[Cardinality(existing)]>>
          ELSE IF SearchBaselines(enum, with_data) # <<>>
          THEN <<SearchBaselines(enum, with_data)[Len(SearchBaselines(enum, with_data))]>>
          ELSE <<>>)
    ELSE ListBaselines(enum)

\* the upper-case names, as the queryables list them and the catalog keeps them
UpperNames == {b \in BaselineNames : ~b.lower}
\* the productVersion enums: no name in both cases
Enums == {E \in SUBSET BaselineNames : \A a, b \in E : a.id = b.id => a = b}
Filters == {F \in SUBSET BaselineNames : Cardinality(F) <= MaxFilter}

SelectInit ==
    /\ sel = NoSelection
    /\ oret = NoOrbitCall
    /\ sv = IdleSavers /\ rf = NoByteFiles /\ overlap = FALSE
    /\ sy = NoSync
    /\ tzoff = 0
    /\ vcall = NoValidated
    /\ dl = NoDownload
    /\ urlF = NoFiles /\ dwlF = NoFiles /\ mrkF = NoFiles
    /\ dataDir = FALSE /\ calledDl = {}
    /\ fs = {} /\ locked = {} /\ cret = NoCleanup
    /\ errF = <<>> /\ errCalls = 0
    /\ slack = 0 /\ counted = TRUE /\ ptype = "PRODUCT" /\ uret = NoUrlCall
    /\ bis = NoBisect
    /\ wr = IdleSave
    /\ tin = NoTimeCall /\ tout = <<>> /\ tpc = "idle"
    /\ items = <<>> /\ sin = NoSearchCall /\ sout = InfoNone(<<>>) /\ spc = "idle"
    /\ disk = NoCatalog /\ cache = NoCatalog /\ built = NoCatalog
    /\ cnow = 0 /\ blog = NoBuild

\* build(collection, baselines_filter=, latest_baseline=) for a product whose
\* queryables list enum, whose catalog entry holds existing and whose
\* baselines of with_data have granules on the backend
BuildSelects ==
    /\ sel.op = "none"
    /\ \E enum \in Enums, existing, with_data \in SUBSET UpperNames,
         baselines_filter \in Filters, latest_baseline \in BOOLEAN :
        /\ sel' = [op |-> "build", enum |-> enum, existing |-> existing,
                   with_data |-> with_data,
                   baselines_filter |-> baselines_filter,
                   latest_baseline |-> latest_baseline,
                   to_update |-> BaselinesToUpdate(enum, existing, with_data,
                                     baselines_filter, latest_baseline)]
        /\ UNCHANGED <<timeVars, regVars, searchVars, catVars, stepVars,
                       cleanVars, errVars, urlsVars, bisVars, dlVars, valVars,
                       winVars, orbVars, raceVars, syncVars>>

SelectNext == BuildSelects

\* --------------------------- searches over results with unparsable items
\* items of one orbit: two granules, and two items whose enclosure URL holds
\* no timestamp; a granule of another orbit
OrbitItems ==
    {Url("ECA", Midnight(2), 0), Url("ECA", Midnight(2), 1),
     Url("", Midnight(2), 0), Url("", Midnight(2), 1),
     Url("ECA", Midnight(3), 0), Url("", Midnight(3), 0)}
OrbitFrames == {Midnight(2), Midnight(3)}
OrbitTimes == {None, Midnight(2), EndOfDay(3)}

OrbitInit ==
    /\ items \in UNION {Orders(S) : S \in SUBSET OrbitItems}
    /\ ptype \in {"PRODUCT"} \cup NO_ORBIT_PRODUCTS
    /\ oret = NoOrbitCall
    /\ sv = IdleSavers /\ rf = NoByteFiles /\ overlap = FALSE
    /\ sy = NoSync
    /\ sel = NoSelection
    /\ tzoff = 0
    /\ vcall = NoValidated
    /\ dl = NoDownload
    /\ urlF = NoFiles /\ dwlF = NoFiles /\ mrkF = NoFiles
    /\ dataDir = FALSE /\ calledDl = {}
    /\ fs = {} /\ locked = {} /\ cret = NoCleanup
    /\ errF = <<>> /\ errCalls = 0
    /\ slack = 0 /\ counted = TRUE /\ uret = NoUrlCall
    /\ bis = NoBisect
    /\ wr = IdleSave
    /\ tin = NoTimeCall /\ tout = <<>> /\ tpc = "idle"
    /\ sin = NoSearchCall /\ sout = InfoNone(<<>>) /\ spc = "idle"
    /\ disk = NoCatalog /\ cache = NoCatalog /\ built = NoCatalog
    /\ cnow = 0 /\ blog = NoBuild

\* searcher.search_urls_by_orbit(collection, ptype, orbit_frame)
CallSearchUrlsByOrbit ==
    /\ oret.op = "none"
    /\ \E orbit_frame \in OrbitFrames :
        \E r \in {SearchUrlsByOrbit(items, ptype, "", orbit_frame)} :
            /\ oret' = [op |-> "search_urls_by_orbit", product_type |-> ptype,
                        found |-> r.found, raised |-> r.raised,
                        urls |-> r.urls, queries |-> r.queries]
            /\ UNCHANGED <<timeVars, regVars, searchVars, catVars, stepVars,
                           cleanVars, errVars, urlsVars, bisVars, dlVars,
                           valVars, winVars, selVars, raceVars, syncVars>>

\* searcher.search_urls(collection, ptype, start=, end=)
CallSearchUrlsOfItems ==
    /\ oret.op = "none"
    /\ \E start, end \in OrbitTimes, nows \in Readings(2, SearchNows, 0) :
        \E raised \in {SearchUrlsRaises(items, "", start, end, <<tzoff, tzoff>>,
                                         nows)} :
            /\ oret' = [op |-> "search_urls", product_type |-> ptype,
                        found |-> items, raised |-> raised,
                        urls |-> IF raised THEN <<>>
                                 ELSE SearchUrls(items, ptype, "", start, end,
                                                 <<tzoff, tzoff>>, nows),
                        queries |-> SearchUrlsQueries(items, "", start, end,
                                                      <<tzoff, tzoff>>, nows)]
            /\ UNCHANGED <<timeVars, regVars, searchVars, catVars, stepVars,
                           cleanVars, errVars, urlsVars, bisVars, dlVars,
                           valVars, winVars, selVars, raceVars, syncVars>>

OrbitNext == CallSearchUrlsByOrbit \/ CallSearchUrlsOfItems

\* ------------------------------------------ save_urls in two processes
\* Two processes call save_urls(urls) on the registry of one (collection,
\* product, baseline).  Nothing locks the files, so every file operation of
\* one call is a step of its own: url_file.exists(), the reads of
\* count_lines, the second url_file.exists(), the reads of read_pairs,
\* open(url_file, "w"), which empties the file, and the writes of the
\* buffered handle, which reach the file at the byte position of the handle
\* in pieces whose ends depend on the sizes of the lines and of the buffer.
\* A file is its bytes.  The URLs are UrlLen characters long and share no
\* character; the bytes are numbered in the order of their codes: NUL, the
\* line feed, the characters of the URLs in the order of the URLs, and '|'.
Savers == {1, 2}
UrlLen == 2
RaceUrls == SortedSeq({E1, E2, A1})
NUL == 0
LF == 1
BAR == Len(RaceUrls) * UrlLen + 2

\* the characters of a URL
UrlBytes(u) ==
    LET i == CHOOSE j \in 1 .. Len(RaceUrls) : RaceUrls[j] = u
    IN  [k \in 1 .. UrlLen |-> (i - 1) * UrlLen + k + 1]

\* sorted() of strings: the order of the first character that differs, a
\* prefix before its extensions
StrLess(a, b) ==
    \E i \in 1 .. (Min(Len(a), Len(b)) + 1) :
        /\ \A j \in 1 .. (i - 1) : a[j] = b[j]
        /\ \/ (i > Len(a) /\ i <= Len(b))
           \/ (i <= Len(a) /\ i <= Len(b) /\ a[i] < b[i])

RECURSIVE SortedKeys(_)
SortedKeys(S) ==
    IF S = {} THEN <<>>
    ELSE LET m == CHOOSE x \in S : \A y \in S \ {x} : StrLess(x, y)
         IN  <<m>> \o SortedKeys(S \ {m})

\* the lines a file object yields from the bytes, stripped: the alphabet has
\* no whitespace but the line feed, which NUL is not
RECURSIVE ByteLines(_, _, _)
ByteLines(bytes, cur, acc) ==
    IF bytes = <<>> THEN (IF cur = <<>> THEN acc ELSE Append(acc, cur))
    ELSE IF Head(bytes) = LF THEN ByteLines(Tail(bytes), <<>>, Append(acc, cur))
    ELSE ByteLines(Tail(bytes), Append(cur, Head(bytes)), acc)

\* line.split("|", 1) of the lines that are not empty
BytePairs(bytes) ==
    LET ls == SelectSeq(ByteLines(bytes, <<>>, <<>>), LAMBDA l : l # <<>>)
        first_bar(l) == CHOOSE i \in 1 .. Len(l) :
                            l[i] = BAR /\ \A j \in 1 .. (i - 1) : l[j] # BAR
        split(l) == IF \E i \in 1 .. Len(l) : l[i] = BAR
                    THEN <<SubSeq(l, 1, first_bar(l) - 1),
                           SubSeq(l, first_bar(l) + 1, Len(l))>>
                    ELSE <<l, <<>>>>
    IN  [i \in 1 .. Len(ls) |-> split(ls[i])]

\* Registry.count_lines of the bytes read
CountByteLines(bytes) ==
    Len(SelectSeq(ByteLines(bytes, <<>>, <<>>), LAMBDA l : l # <<>>))

\* new_urls: the date's URLs that are the key of no line read
RaceNewUrls(pairs, date_urls) ==
    SelectSeq(date_urls,
              LAMBDA u : \A i \in 1 .. Len(pairs) : pairs[i][1] # UrlBytes(u))

\* a rewrite that keeps the lines of the new URLs only
RaceAllLinesNewOnly(pairs, date_urls) ==
    LET new == {UrlBytes(u) : u \in Range(RaceNewUrls(pairs, date_urls))}
        keys == SortedKeys(new)
    IN  [i \in 1 .. Len(keys) |-> Append(keys[i], BAR)]

\* all_lines, without data_dir: the lines read, the last line of a key
\* winning and a line without a second part losing its '|', and "url|" for
\* the new URLs, sorted by key
RaceAllLines(pairs, date_urls) ==
    LET new == {UrlBytes(u) : u \in Range(RaceNewUrls(pairs, date_urls))}
        old == {pairs[i][1] : i \in 1 .. Len(pairs)}
        last(k) == CHOOSE i \in 1 .. Len(pairs) :
                        pairs[i][1] = k /\ \A j \in (i + 1) .. Len(pairs) : pairs[j][1] # k
        line(k) == IF k \in new THEN Append(k, BAR)
                   ELSE IF pairs[last(k)][2] # <<>>
                   THEN k \o <<BAR>> \o pairs[last(k)][2]
                   ELSE k
        keys == SortedKeys(old \cup new)
    IN  [i \in 1 .. Len(keys) |-> line(keys[i])]

\* f.write(line + "\n") for every line: the bytes handed to the handle
RECURSIVE WrittenBytes(_)
WrittenBytes(lines) ==
    IF lines = <<>> THEN <<>>
    ELSE Head(lines) \o <<LF>> \o WrittenBytes(Tail(lines))

\* bytes written at byte position pos of a file; a position beyond the end
\* of the file leaves a gap of NUL bytes
WriteAt(f, pos, bytes) ==
    LET gap == IF pos > Len(f.bytes) THEN [i \in 1 .. (pos - Len(f.bytes)) |-> NUL]
               ELSE <<>>
        old == f.bytes \o gap
    IN  [exists |-> TRUE,
         bytes |-> [i \in 1 .. Max(Len(old), pos + Len(bytes)) |->
                       IF i > pos /\ i <= pos + Len(bytes) THEN bytes[i - pos]
                       ELSE old[i]]]

\* what the steps of the savers leave unchanged
RaceFrame ==
    UNCHANGED <<regVars, timeVars, searchVars, catVars,
                stepVars, cleanVars, errVars, urlsVars, bisVars, dlVars,
                valVars, winVars, selVars, orbVars, syncVars>>

\* the call of p goes on to the next date
NextDate(p) ==
    [sv EXCEPT ![p].pc = "loop", ![p].dates = Tail(@), ![p].got = <<>>,
               ![p].pending = <<>>, ![p].pos = 0, ![p].new_urls = <<>>]

\* the merge of p with the pairs read: nothing to write, or the bytes to write
Merged(p, pairs) ==
    LET date_urls == UrlsOfDate(sv[p].urls, Head(sv[p].dates))
        new_urls == RaceNewUrls(pairs, date_urls)
    IN  IF new_urls = <<>> THEN NextDate(p)
        ELSE [sv EXCEPT ![p].pc = "open", ![p].got = <<>>, ![p].pos = 0,
                        ![p].pending = WrittenBytes(RaceAllLines(pairs, date_urls)),
                        ![p].new_urls = new_urls]

\* save_urls(urls) is called in process p: the URLs are grouped by date
RaceBegin(p) ==
    /\ sv[p].pc = "idle"
    /\ \E L \in UrlLists :
          sv' = [sv EXCEPT ![p] = [IdleSaver EXCEPT !.pc = "loop", !.urls = L,
                                                    !.dates = DateOrder(L, <<>>)]]
    /\ overlap' = (overlap \/ \E q \in Savers \ {p} : sv[q].pc \notin {"idle", "returned"})
    /\ UNCHANGED rf
    /\ RaceFrame

\* url_file.exists() at the head of the loop of p
RaceExists(p) ==
    /\ sv[p].pc = "loop" /\ sv[p].dates # <<>>
    /\ sv' = [sv EXCEPT ![p].pc = IF rf[Head(sv[p].dates)].exists THEN "count_lines"
                                  ELSE "exists",
                        ![p].pos = 0, ![p].got = <<>>]
    /\ UNCHANGED <<rf, overlap>>
    /\ RaceFrame

\* a read of count_lines or of read_pairs in p: some of the bytes that lie
\* behind the position of its handle
RaceRead(p) ==
    /\ sv[p].pc \in {"count_lines", "read_pairs"}
    /\ LET bytes == rf[Head(sv[p].dates)].bytes
       IN  /\ sv[p].pos < Len(bytes)
           /\ \E n \in 1 .. (Len(bytes) - sv[p].pos) :
                 sv' = [sv EXCEPT ![p].got = @ \o SubSeq(bytes, sv[p].pos + 1,
                                                        sv[p].pos + n),
                                  ![p].pos = @ + n]
    /\ UNCHANGED <<rf, overlap>>
    /\ RaceFrame

\* count_lines of p reaches the end of the file: a file of as many lines as
\* the date has URLs is touched and left as it is
RaceCounted(p) ==
    /\ sv[p].pc = "count_lines"
    /\ sv[p].pos >= Len(rf[Head(sv[p].dates)].bytes)
    /\ sv' = IF CountByteLines(sv[p].got)
                  = Len(UrlsOfDate(sv[p].urls, Head(sv[p].dates)))
             THEN NextDate(p)
             ELSE [sv EXCEPT ![p].pc = "exists", ![p].got = <<>>, ![p].pos = 0]
    /\ UNCHANGED <<rf, overlap>>
    /\ RaceFrame

\* the second url_file.exists() of p: without a file there is nothing to
\* merge with
RaceExistsAgain(p) ==
    /\ sv[p].pc = "exists"
    /\ sv' = IF rf[Head(sv[p].dates)].exists
             THEN [sv EXCEPT ![p].pc = "read_pairs", ![p].pos = 0, ![p].got = <<>>]
             ELSE Merged(p, <<>>)
    /\ UNCHANGED <<rf, overlap>>
    /\ RaceFrame

\* read_pairs of p reaches the end of the file; the lines to write are built
\* in memory
RaceMerge(p) ==
    /\ sv[p].pc = "read_pairs"
    /\ sv[p].pos >= Len(rf[Head(sv[p].dates)].bytes)
    /\ sv' = Merged(p, BytePairs(sv[p].got))
    /\ UNCHANGED <<rf, overlap>>
    /\ RaceFrame

\* open(url_file, "w") in p empties the file
RaceOpen(p) ==
    /\ sv[p].pc = "open"
    /\ rf' = [rf EXCEPT ![Head(sv[p].dates)] = [exists |-> TRUE, bytes |-> <<>>]]
    /\ sv' = [sv EXCEPT ![p].pc = "write", ![p].pos = 0]
    /\ UNCHANGED overlap
    /\ RaceFrame

\* the handle of p passes the next piece of its bytes to the file
RaceWrite(p) ==
    /\ sv[p].pc = "write" /\ sv[p].pending # <<>>
    /\ \E n \in 1 .. Len(sv[p].pending) :
          /\ rf' = [rf EXCEPT ![Head(sv[p].dates)] =
                       WriteAt(@, sv[p].pos, SubSeq(sv[p].pending, 1, n))]
          /\ sv' = [sv EXCEPT ![p].pending = SubSeq(@, n + 1, Len(@)),
                              ![p].pos = @ + n]
    /\ UNCHANGED overlap
    /\ RaceFrame

\* the with-block of p closes the file; new_count += len(new_urls)
RaceClose(p) ==
    /\ sv[p].pc = "write" /\ sv[p].pending = <<>>
    /\ sv' = [NextDate(p) EXCEPT ![p].counted = @ \cup Range(sv[p].new_urls)]
    /\ UNCHANGED <<rf, overlap>>
    /\ RaceFrame

\* p returns new_count, files_written
RaceReturn(p) ==
    /\ sv[p].pc = "loop" /\ sv[p].dates = <<>>
    /\ sv' = [sv EXCEPT ![p].pc = "returned"]
    /\ UNCHANGED <<rf, overlap>>
    /\ RaceFrame

RaceInit ==
    /\ urlF = NoFiles /\ dwlF = NoFiles /\ mrkF = NoFiles
    /\ dataDir = FALSE
    /\ calledDl = {}
    /\ sv = IdleSavers /\ rf = NoByteFiles /\ overlap = FALSE
    /\ sy = NoSync
    /\ wr = IdleSave
    /\ fs = {} /\ locked = {} /\ cret = NoCleanup
    /\ errF = <<>> /\ errCalls = 0
    /\ slack = 0 /\ counted = TRUE /\ ptype = "PRODUCT" /\ uret = NoUrlCall
    /\ bis = NoBisect
    /\ dl = NoDownload
    /\ vcall = NoValidated
    /\ tzoff = 0
    /\ sel = NoSelection
    /\ oret = NoOrbitCall
    /\ tin = NoTimeCall /\ tout = <<>> /\ tpc = "idle"
    /\ items = <<>> /\ sin = NoSearchCall /\ sout = InfoNone(<<>>) /\ spc = "idle"
    /\ disk = NoCatalog /\ cache = NoCatalog /\ built = NoCatalog
    /\ cnow = 0 /\ blog = NoBuild

RaceNext ==
    \E p \in Savers :
        \/ RaceBegin(p) \/ RaceExists(p) \/ RaceRead(p) \/ RaceCounted(p)
        \/ RaceExistsAgain(p) \/ RaceMerge(p) \/ RaceOpen(p)
        \/ RaceWrite(p) \/ RaceClose(p) \/ RaceReturn(p)

\* StateTracker.get_error_urls: the URLs of the records of errors.txt
GetErrorUrls(err_text) ==
    LET pairs == ReadPairsOfText(err_text)
    IN  {pairs[i][1] : i \in 1 .. Len(pairs)}

\* the dictionary of get_stats
StatsOf(all_urls, downloaded, marked, errors, pending_downloads, pending_marks) ==
    [total_urls |-> Cardinality(all_urls),
     downloaded |-> Cardinality(downloaded),
     marked |-> Cardinality(marked),
     errors |-> Cardinality(errors),
     pending_downloads |-> Cardinality(pending_downloads),
     pending_marks |-> Cardinality(pending_marks)]

\* StateTracker.get_stats of a tracker with or without data_dir: the counts
\* of the URL, download, mark and error records; raised: get_downloaded_paths
\* failed with the TypeError of url_to_local_path and no dictionary is
\* returned
GetStats(url_files, dwl_files, mrk_files, err_text, start, end, data_dir) ==
    LET all_urls == Range(LoadUrlsWithPaths(url_files, start, end))
        downloaded == GetDownloadedUrls(dwl_files, start, end)
        downloaded_paths == GetDownloadedPaths(dwl_files, start, end, data_dir)
        marked == GetMarkedPaths(mrk_files, start, end)
        errors == GetErrorUrls(err_text)
    IN  IF downloaded_paths.raised
        THEN [raised |-> TRUE, stats |-> StatsOf({}, {}, {}, {}, {}, {})]
        ELSE [raised |-> FALSE,
              stats |-> StatsOf(all_urls, downloaded, marked, errors,
                                all_urls \ downloaded,
                                downloaded_paths.paths \ marked)]

\* ------------------------------------------------------------ client.sync
\* sync(collection, product, baseline, start, end) over the whole mission, on
\* the tracker of the one baseline: the day-by-day search, add_urls,
\* get_pending_downloads and batch_download(skip_existing=True,
\* on_download=tracker.mark_downloaded).  backend are the granules of the
\* catalogue; now is the reading of the clock in search_urls_iter_day; stop >
\* 0: the process stops in the stream of the stop-th URL it handles, so the
\* later URLs are never reached.  add_urls stands outside the try, so its
\* exception leaves sync (raised); _get_downloader and batch_download stand
\* inside, so a CredentialsError (no creds) or the AuthenticationError of a
\* denied URL becomes the error of the baseline in the SyncResult, with the
\* records and files of the URLs handled before it kept.
MaxRuns == 2
SyncStart == Midnight(1)
SyncEnd == EndOfDay(NDays - 3)
SyncNow == Midnight(NDays - 1)

SyncOp(backend, product_type, url_files, dwl_files, existing, failing, breaking, denied, creds, stop, now) ==
    LET urls == SearchUrlsDays(backend, product_type, "BL",
                               IterDayWindows(SyncStart, SyncEnd, UTC, now))
        added == AddUrlsOp(url_files, urls, TRUE)
        pending == GetPendingDownloads(added.files, dwl_files, None, None)
        to_download == SelectSeq(urls, LAMBDA u : u \in pending)
        reached == IF stop = 0 THEN to_download
                   ELSE SubSeq(to_download, 1, Min(stop, Len(to_download)))
        cut == IF stop = 0 \/ stop > Len(to_download) THEN {}
               ELSE {to_download[stop]}
        st == [results |-> {}, skipped |-> <<>>, errors |-> <<>>,
               attempted |-> {}, fs |-> existing, breaking |-> breaking \cup cut,
               url |-> added.files, dwl |-> dwl_files, raised |-> FALSE]
        run == IF added.raised \/ to_download = <<>> THEN st
               ELSE IF ~creds THEN [st EXCEPT !.raised = TRUE]
               ELSE BatchDownload(reached, st, failing \cup cut, denied \ cut,
                                  TRUE, TRUE)
    IN  [urls |-> urls, to_download |-> to_download, raised |-> added.raised,
         errors |-> IF run.raised THEN <<[about |-> Empty, kind |-> "baseline"]>>
                    ELSE <<>>,
         url |-> run.url, dwl |-> run.dwl, fs |-> run.fs,
         attempted |-> run.attempted,
         completed |-> run.attempted \ (failing \cup cut)]

\* what the steps of a sync session leave unchanged
SyncFrame ==
    UNCHANGED <<dataDir, calledDl, locked, cret, timeVars, searchVars, catVars,
                stepVars, errVars, urlsVars, bisVars, dlVars, valVars, winVars,
                selVars, orbVars, raceVars>>

\* client.sync(collection, product, baseline)
Sync ==
    /\ sy.runs < MaxRuns
    /\ \E creds \in BOOLEAN, stop \in 0 .. 2 :
       \E o \in Outcomes(Range(items), creds) :
       \E r \in {SyncOp(items, ptype, urlF, dwlF, fs, o.failing, o.breaking,
                        o.denied, creds, stop, SyncNow)} :
          /\ urlF' = r.url /\ dwlF' = r.dwl /\ fs' = r.fs
          /\ sy' = [op |-> "sync", runs |-> sy.runs + 1, urls |-> r.urls,
                    to_download |-> r.to_download, attempted |-> r.attempted,
                    raised |-> r.raised, errors |-> r.errors,
                    dwl_before |-> GetDownloadedUrls(dwlF, None, None),
                    fs_before |-> fs,
                    completed |-> sy.completed \cup r.completed]
    /\ UNCHANGED mrkF
    /\ SyncFrame

\* the URL lists of the tracked downloads
TrackedLists == {<<E1>>, <<E2>>, <<A1>>, <<E1, E2>>, <<BAD, A1>>}

\* client.download(urls, collection, track_state=True) to structured paths
TrackedDownload ==
    /\ sy.runs < MaxRuns
    /\ \E urls \in TrackedLists, creds, skip_existing \in BOOLEAN :
       \E o \in Outcomes(Range(urls) \ {BAD}, creds) :
       \E r \in {DownloadOp(urls, FALSE, TRUE, skip_existing, FALSE, o.failing,
                            o.breaking, o.denied, creds, fs, urlF, dwlF)} :
          /\ urlF' = r.url /\ dwlF' = r.dwl /\ fs' = r.fs
          /\ sy' = [op |-> "download", runs |-> sy.runs + 1, urls |-> urls,
                    to_download |-> urls, attempted |-> r.attempted,
                    raised |-> r.raised, errors |-> r.errors,
                    dwl_before |-> GetDownloadedUrls(dwlF, None, None),
                    fs_before |-> fs,
                    completed |-> sy.completed \cup (r.attempted \ o.failing)]
    /\ UNCHANGED mrkF
    /\ SyncFrame

\* tracker.mark(path) of a downloaded file not yet marked
SyncMark ==
    /\ \E p \in GetPendingMarkPaths(dwlF, mrkF, None, None, dataDir).paths :
          mrkF' = MarkOp(mrkF, p).files
    /\ sy' = [sy EXCEPT !.op = "mark"]
    /\ UNCHANGED <<urlF, dwlF, fs>>
    /\ SyncFrame

\* tracker.cleanup_marked()
SyncCleanup ==
    /\ GetDeletableFiles(mrkF, fs) # {}
    /\ fs' = CleanupMarkedOp(mrkF, fs, {}, FALSE).fs
    /\ sy' = [sy EXCEPT !.op = "cleanup"]
    /\ UNCHANGED <<urlF, dwlF, mrkF>>
    /\ SyncFrame

\* a backend that holds E1 and any of E2 and A1 and yields them by sensing time
SyncInit ==
    /\ urlF = NoFiles /\ dwlF = NoFiles /\ mrkF = NoFiles
    /\ dataDir = TRUE
    /\ calledDl = {}
    /\ sy = NoSync
    /\ sv = IdleSavers /\ rf = NoByteFiles /\ overlap = FALSE
    /\ wr = IdleSave
    /\ fs = {} /\ locked = {} /\ cret = NoCleanup
    /\ errF = <<>> /\ errCalls = 0
    /\ slack = 0 /\ counted = TRUE /\ ptype = "PRODUCT" /\ uret = NoUrlCall
    /\ bis = NoBisect
    /\ dl = NoDownload
    /\ vcall = NoValidated
    /\ tzoff = 0
    /\ sel = NoSelection
    /\ oret = NoOrbitCall
    /\ tin = NoTimeCall /\ tout = <<>> /\ tpc = "idle"
    /\ items \in {ByTime(S) : S \in {T \in SUBSET {E1, E2, A1} : E1 \in T}}
    /\ sin = NoSearchCall /\ sout = InfoNone(<<>>) /\ spc = "idle"
    /\ disk = NoCatalog /\ cache = NoCatalog /\ built = NoCatalog
    /\ cnow = 0 /\ blog = NoBuild

SyncNext == Sync \/ TrackedDownload \/ SyncMark \/ SyncCleanup

\* ------------------------------------------------------ specifications
SpecTime == TimeInit /\ [][TimeNext]_vars
SpecRegistry == RegInit /\ [][RegNext]_vars
SpecSearch == SearchInit /\ [][SearchNext]_vars
SpecCatalog == CatInit /\ [][CatNext]_vars
SpecSaveSteps == SaveStepInit /\ [][SaveStepNext]_vars
SpecCleanup == CleanInit /\ [][CleanNext]_vars
SpecErrors == ErrInit /\ [][ErrNext]_vars
SpecUrls == UrlInit /\ [][UrlNext]_vars
SpecUrlZones == ZoneUrlInit /\ [][ZoneUrlNext]_vars
SpecBisect == BisectInit /\ [][BisectNext]_vars
SpecDownload == DownloadInit /\ [][DownloadNext]_vars
SpecValidation == ValidationInit /\ [][ValidationNext]_vars
SpecWiden == WidenInit /\ [][WidenNext]_vars
SpecWindow == WindowInit /\ [][RegNext]_vars
SpecSelect == SelectInit /\ [][SelectNext]_vars
SpecOrbit == OrbitInit /\ [][OrbitNext]_vars
SpecRace == RaceInit /\ [][RaceNext]_vars
SpecSync == SyncInit /\ [][SyncNext]_vars
SpecCap == CapInit /\ [][CapNext]_vars

\* ------------------------------------------------------------ properties
\* the keys (first fields) of the records held by a family of daily files
RecordedKeys(files) ==
    UNION {{l.key : l \in {m \in Range(files[d].lines) : ~IsBlank(m)}} :
               d \in {x \in Days : files[x].exists}}

\* C1: get_pending_downloads() with no window is exactly the URLs recorded in
\* the URL files minus the URLs recorded in the download files, and it is
\* empty once mark_downloaded has been called for every discovered URL.
PendingIsDiscoveredMinusDownloaded ==
    LET pending == GetPendingDownloads(urlF, dwlF, None, None)
    IN  /\ pending = RecordedKeys(urlF) \ RecordedKeys(dwlF)
        /\ (RecordedKeys(urlF) \subseteq calledDl => pending = {})

\* C1 witness: two URLs were discovered and mark_downloaded has recorded both
AllDiscoveredMarked ==
    /\ Cardinality(RecordedKeys(urlF)) = 2
    /\ RecordedKeys(urlF) \subseteq calledDl
    /\ RecordedKeys(dwlF) = RecordedKeys(urlF)

\* C2: add_urls is idempotent: from any registry state and for any list L,
\* add_urls(L) returns the number of distinct URLs of L with a sensing time
\* that were not recorded yet, and a second add_urls(L) returns 0 and leaves
\* every URL file unchanged.
AddUrlsIdempotent ==
    \A L \in UrlLists :
        LET r1 == AddUrlsOp(urlF, L, dataDir)
            r2 == AddUrlsOp(r1.files, L, dataDir)
        IN  /\ ~r1.raised /\ ~r2.raised
            /\ r1.ret = Cardinality({u \in Range(L) :
                            ExtractSensingTime(u) # None /\ u \notin RecordedKeys(urlF)})
            /\ r2.ret = 0
            /\ r2.files = r1.files

\* C3: save_urls is idempotent: from any state of the URL files and for any
\* list L, a second save_urls(L) right after the first rewrites no file (it
\* at most touches) and reports 0 new URLs.
SaveUrlsIdempotent ==
    \A L \in UrlLists :
        LET r1 == SaveUrlsOp(urlF, L, dataDir)
            r2 == SaveUrlsOp(r1.files, L, dataDir)
        IN  /\ ~r1.raised /\ ~r2.raised
            /\ r2.rewritten = {}
            /\ r2.files = r1.files
            /\ r2.ret = 0

\* C4: search_product_info_range over a normalized window, against a backend
\* whose data lies on a contiguous run of days [a..b] inside the window,
\* returns the earliest granule of day a and the latest granule of day b; it
\* returns nothing when the window holds no data.
InfoRangeFindsBoundaryGranules ==
    spc = "search_product_info_range" =>
        LET r == NormalizeTimeRange(sin.start, sin.end, MissionStart, MissionEnd,
                                    sin.nows[1])
            held == Range(items)
            inside == {g \in held : r[1] <= g.t /\ g.t <= r[2]}
            days == {DateOf(g.t) : g \in held}
            a == CHOOSE d \in days : \A e \in days : d <= e
            b == CHOOSE d \in days : \A e \in days : e <= d
            of_day(d) == {g.t : g \in {x \in held : DateOf(x.t) = d}}
        IN  /\ inside = {} => ~sout.found
            /\ (held # {} /\ inside = held /\ days = a .. b) =>
                   /\ sout.found
                   /\ \A t \in of_day(a) : sout.first.sensing_time <= t
                   /\ sout.first.sensing_time \in of_day(a)
                   /\ \A t \in of_day(b) : t <= sout.last.sensing_time
                   /\ sout.last.sensing_time \in of_day(b)

\* C7: normalize_time_range returns (t0, t1) with
\* mission_start <= t0 <= t1 <= min(now, mission_end) for all inputs.
NormalizedWithinBounds ==
    tpc = "normalize_time_range" =>
        /\ MissionStart <= tout[1]
        /\ tout[1] <= tout[2]
        /\ tout[2] <= Min(tin.now, MissionEnd)

\* C8: for start < end the windows of _iter_day_ranges are ordered, cover
\* [start, end] exactly without gaps or overlaps, start at start, end at end,
\* are full days in the interior, and none has start >= end.
DayRangesCoverExactly ==
    (tpc = "_iter_day_ranges" /\ tin.start < tin.end) =>
        LET w == tout
            n == Len(tout)
        IN  /\ n >= 1
            /\ w[1][1] = tin.start
            /\ w[n][2] = tin.end
            /\ \A i \in 1 .. n : w[i][1] < w[i][2]
            /\ \A i \in 1 .. (n - 1) : w[i][2] < w[i + 1][1]
            /\ UNION {w[i][1] .. w[i][2] : i \in 1 .. n} = tin.start .. tin.end
            /\ \A i \in 2 .. (n - 1) :
                   \E d \in Days : w[i] = <<Midnight(d), EndOfDay(d)>>

\* C10: within every registry file (URL, download and mark files) no key
\* appears in more than one record.
KeysUniquePerFile ==
    \A files \in {urlF, dwlF, mrkF} : \A d \in Days :
        LET ls == files[d].lines
        IN  \A i, j \in 1 .. Len(ls) : ls[i].key = ls[j].key => i = j

\* the normalized range of the last build call
BlogRange == NormalizeTimeRange(blog.start, blog.end, MissionStart, MissionEnd, blog.nows[2])

\* the fetch windows an incremental build is to issue for a recorded range
\* [time_start, time_end] and a normalized request [s, e]
ClaimedWindows(e, r) ==
    (IF r[1] < e.time_start
     THEN << <<r[1], e.time_start - OneSecond>> >> ELSE <<>>)
    \o (IF r[2] > e.time_end
        THEN << <<e.time_end + OneSecond, r[2]>> >> ELSE <<>>)

\* C5: an incremental build over a recorded range [time_start, time_end]
\* fetches exactly [s, time_start - 1s] when s < time_start and
\* [time_end + 1s, e] when e > time_end, and no search it issues covers an
\* instant of the recorded range.
IncrementalBuildSkipsRecordedRange ==
    (blog.op = "build" /\ HasRange(blog.existing)) =>
        /\ [i \in 1..Len(blog.to_fetch) |->
                <<blog.to_fetch[i].start, blog.to_fetch[i].end>>]
             = ClaimedWindows(blog.existing, BlogRange)
        /\ \A i \in 1..Len(blog.queries) :
             \/ blog.queries[i][2] < blog.existing.time_start
             \/ blog.queries[i][1] > blog.existing.time_end

\* the readings of the last build, and the clock standing still after them
BlogNows == blog.nows \o [i \in 1 .. 2 * InfoReads |-> blog.nows[Len(blog.nows)]]

\* every catalog the manager holds, wrote or returned
CatalogStates == {disk, cache, built, blog.result}

\* C6: a build without force never lowers a baseline entry's count (nor drops
\* the entry), and in every catalog state with both time bounds set,
\* time_start <= time_end.
CountsNeverDecrease ==
    /\ (blog.op = "build" /\ ~blog.force /\ blog.existing.present) =>
            /\ blog.result.entry.present
            /\ blog.result.entry.count >= blog.existing.count
    /\ \A c \in CatalogStates :
            HasRange(c.entry) => c.entry.time_start <= c.entry.time_end

\* C9: the catalog build(force=True) returns is the one a build of the same
\* request makes on a manager with no cache and no catalog file: nothing in it
\* is carried over from before the call.
ForceBuildStartsEmpty ==
    (blog.op = "build" /\ blog.force) =>
        blog.result = BuildOp(NoCatalog, NoCatalog, items, blog.start,
                              blog.end, <<tzoff, tzoff>>, TRUE,
                              BlogNows).catalog

\* the records of the date file d: its non-blank lines
RecordsOf(files, d) == {l \in Range(files[d].lines) : ~IsBlank(l)}

\* C11: every record of a url_, dwl_ or mrk_ date file has a key whose
\* filename sensing date is the date of the file, whichever of add_urls,
\* save_urls, mark_downloaded and mark wrote it.
RecordsPartitionedBySensingDate ==
    \A files \in {urlF, dwlF, mrkF} : \A d \in Days :
        \A l \in RecordsOf(files, d) :
            /\ ExtractSensingTime(l.key) # None
            /\ DateOf(ExtractSensingTime(l.key)) = d

\* URL files of two sensing dates, a download record and a mark record exist
TwoDatesRecorded ==
    /\ Cardinality({d \in Days : RecordsOf(urlF, d) # {}}) = 2
    /\ \E d \in Days : RecordsOf(dwlF, d) # {}
    /\ \E d \in Days : RecordsOf(mrkF, d) # {}

\* C12: whenever save_urls(L) returns, the count it returns is the number of
\* distinct URLs of L with a sensing time that were not recorded before the
\* call and are recorded after it, for every list L (repeats included) and
\* every state of the URL files.
SaveUrlsCountsNewUrls ==
    \A L \in UrlLists :
        LET r == SaveUrlsOp(urlF, L, dataDir)
        IN  ~r.raised =>
                r.ret = Cardinality({u \in Range(L) :
                            /\ ExtractSensingTime(u) # None
                            /\ u \notin RecordedKeys(urlF)
                            /\ u \in RecordedKeys(r.files)})

\* what the save_urls call in progress returns when nothing stops it
SaveGoal == SaveUrlsOp(wr.before, wr.urls, dataDir)

\* C13: save_urls rewrites a date's URL file atomically: wherever the call
\* stands (and so wherever the process stops), every URL file holds either
\* the lines it had before the call or its complete merged, URL-sorted lines.
SaveUrlsRewritesAtomically ==
    wr.pc # "idle" =>
        \A d \in Days :
            \/ urlF[d].lines = wr.before[d].lines
            \/ urlF[d].lines = SaveGoal.files[d].lines

\* files is old with exactly one line, of key k, appended to the file of date d
OneRecordAppended(old, files, d, k) ==
    /\ \A e \in Days \ {d} : files[e] = old[e]
    /\ files[d].exists
    /\ Len(files[d].lines) = Len(old[d].lines) + 1
    /\ SubSeq(files[d].lines, 1, Len(old[d].lines)) = old[d].lines
    /\ files[d].lines[Len(files[d].lines)].key = k

\* C14: mark_downloaded(url) and mark(path) never raise; without a sensing
\* time in the argument they return False and leave the files as they are,
\* otherwise they return True and append exactly one record to the download
\* (mark) file of the argument's sensing date and change no other file.
MarkAppendsOneRecordOrFails ==
    /\ \A u \in RegUrls : \A lp \in {Empty, PathOf(u)} :
         LET r == MarkDownloadedOp(dwlF, u, lp, dataDir)
         IN  /\ ~r.raised
             /\ IF ExtractSensingTime(u) = None
                THEN r.ret = FALSE /\ r.files = dwlF
                ELSE r.ret = TRUE
                     /\ OneRecordAppended(dwlF, r.files,
                                          DateOf(ExtractSensingTime(u)), u)
    /\ \A p \in RegPaths :
         LET r == MarkOp(mrkF, p)
         IN  /\ ~r.raised
             /\ IF ExtractSensingTime(p) = None
                THEN r.ret = FALSE /\ r.files = mrkF
                ELSE r.ret = TRUE
                     /\ OneRecordAppended(mrkF, r.files,
                                          DateOf(ExtractSensingTime(p)), p)

\* C15: cleanup_marked(dry_run=False) tries every marked path that exists,
\* goes on after a failed deletion and returns exactly the paths it deleted;
\* with dry_run=True it deletes nothing and returns the marked paths that
\* exist. Neither mode changes a registry file.
CleanupReturnsDeletedPaths ==
    cret.called =>
        LET marked == {p \in RecordedKeys(cret.reg_before[3]) : p \in cret.fs_before}
        IN  /\ cret.reg_after = cret.reg_before
            /\ IF cret.dry_run
               THEN cret.fs_after = cret.fs_before /\ cret.ret = marked
               ELSE /\ cret.fs_after = cret.fs_before \ {p \in marked : p \notin locked}
                    /\ cret.ret = cret.fs_before \ cret.fs_after

\* C16: after any number of mark_error calls, errors.txt read back holds
\* exactly one record per call; every record's key is the URL passed in and
\* its error field has no line break, no '|' and at most ErrorLimit
\* characters.
MarkErrorAddsOneCleanRecord ==
    LET pairs == ReadPairsOfText(errF)
    IN  /\ Len(pairs) = errCalls
        /\ \A i \in 1 .. Len(pairs) :
              /\ pairs[i][1] = <<"U">>
              /\ Len(pairs[i][2]) <= ErrorLimit
              /\ \A j \in 1 .. Len(pairs[i][2]) :
                     pairs[i][2][j] \notin {"LF", "CR", "BAR"}

\* whether a sensing time lies inside the bounds given (None: no bound)
InsideRange(t, start, end) ==
    /\ t # None
    /\ (start = None \/ start <= t)
    /\ (end = None \/ t <= end)

\* C17: search_has_any_product returns False when the backend matched
\* nothing or reports no matched count; when a start and/or an end is given
\* and it returns True, some item the backend returned has its filename
\* sensing time inside the range given.
HasAnyOnlyForItemInsideRange ==
    uret.op = "search_has_any_product" =>
        LET found == StacSearch(items, uret.baseline, sin.start, sin.end)
        IN  /\ (~counted \/ Len(found) = 0) => ~uret.has_any
            /\ (uret.has_any /\ (sin.start # None \/ sin.end # None)) =>
                   \E g \in Range(found) :
                       InsideRange(ExtractSensingTime(g), sin.start, sin.end)

\* the normalized range of the search call made
UrlRange == NormalizeTimeRange(sin.start, sin.end, MissionStart, MissionEnd, sin.nows[1])
\* C18: the list search_urls returns holds only URLs whose sensing time lies
\* in the normalized [start, end], in ascending order of sensing time, on the
\* single-query path and on the day-by-day path, whatever the backend
\* returned.
SearchUrlsInsideRangeAscending ==
    uret.op = "search_urls" =>
        /\ \A i \in 1 .. Len(uret.urls) :
               InsideRange(ExtractSensingTime(uret.urls[i]), UrlRange[1], UrlRange[2])
        /\ \A i \in 1 .. Len(uret.urls) : \A j \in i .. Len(uret.urls) :
               ExtractSensingTime(uret.urls[i]) <= ExtractSensingTime(uret.urls[j])

\* the granules of the backend of the baseline the call asked for, or all of
\* them when it asked for none
UrlHeld == Range(StacSearch(items, uret.baseline, None, None))

\* the (baseline, sensing_time) key of _dedup_urls
DedupKey(u) == <<ExtractBaseline(u, TRUE), ExtractSensingTime(u)>>

\* C19: for a product type of DEDUP_PRODUCTS, search_urls returns at most one
\* URL per (baseline, sensing_time) key, and no granule of the backend with
\* that key has an earlier creation time; for every other product type the
\* granules sharing the sensing time of a returned URL are all returned.
DedupKeepsEarliestCreation ==
    uret.op = "search_urls" =>
        IF ptype \in DEDUP_PRODUCTS
        THEN /\ \A i, j \in 1 .. Len(uret.urls) :
                    DedupKey(uret.urls[i]) = DedupKey(uret.urls[j]) => i = j
             /\ \A u \in Range(uret.urls) : \A g \in UrlHeld :
                    (DedupKey(g) = DedupKey(u) /\ ExtractCreationTime(g) # None)
                        => ExtractCreationTime(u) <= ExtractCreationTime(g)
        ELSE /\ \A i, j \in 1 .. Len(uret.urls) :
                    uret.urls[i] = uret.urls[j] => i = j
             /\ \A u \in Range(uret.urls) : \A g \in UrlHeld :
                    ExtractSensingTime(g) = ExtractSensingTime(u)
                        => g \in Range(uret.urls)

\* an AUX_MET_1D search over a backend holding two processing versions of
\* one granule, which returned the earlier one
DedupDroppedLaterVersion ==
    /\ uret.op = "search_urls"
    /\ ptype \in DEDUP_PRODUCTS
    /\ \E u \in Range(uret.urls) : \E g \in UrlHeld :
           /\ DedupKey(g) = DedupKey(u)
           /\ ExtractCreationTime(g) > ExtractCreationTime(u)

\* the least k with 2^k >= n
CeilLog2(n) == CHOOSE k \in 0 .. n : 2 ^ k >= n /\ \A j \in 0 .. (k - 1) : 2 ^ j < n

\* the calendar days the range of the call spans, counted in UTC or in the
\* caller's timezone, whichever counts more
BisectedDays ==
    Max(DateOf(sin.end) - DateOf(sin.start),
        DateIn(sin.end, tzoff) - DateIn(sin.start, tzoff)) + 1

\* C20: each binary search of search_product_info_range ends, and it ends
\* after at most ceil(log2(N + 1)) existence probes, N being the number of
\* calendar days of the range.
BinarySearchProbesLogarithmic ==
    /\ bis.op # "hangs"
    /\ bis.op = "searched" =>
           /\ Len(bis.first) <= CeilLog2(BisectedDays + 1)
           /\ Len(bis.last) <= CeilLog2(BisectedDays + 1)

\* the URLs whose transfer failed in the last download call
FailedTransfers == dl.attempted \cap dl.failing

\* C21: every URL whose transfer failed in a download call is named in the
\* error list of the DownloadResult and, when state is tracked, the error
\* log of the tracker holds a record.
FailedTransferRecorded ==
    dl.op = "download" =>
        \A u \in FailedTransfers :
            /\ \E i \in 1 .. Len(dl.result.errors) : dl.result.errors[i].about = u
            /\ dl.track_state => ReadPairsOfText(errF) # <<>>

\* whether download can transfer the URL at all: any URL into out_dir, a URL
\* with product, baseline and sensing time into the structured tree
Transferable(u) ==
    dl.out_dir \/ (Groupable(u) /\ ExtractSensingTime(u) # None)

\* C22: in a download call every transferable URL listed after one whose
\* transfer failed is still tried (or found present), every URL whose
\* transfer succeeded is in the downloaded mapping returned and, when state
\* is tracked, recorded as downloaded.
FailureSparesSiblings ==
    (dl.op = "download" /\ ~dl.dry_run) =>
        /\ \A i \in 1 .. Len(dl.urls) : \A j \in (i + 1) .. Len(dl.urls) :
               (dl.urls[i] \in FailedTransfers /\ Transferable(dl.urls[j])) =>
                   \/ dl.urls[j] \in dl.attempted
                   \/ dl.urls[j] \in dl.result.downloaded
                   \/ dl.urls[j] \in Range(dl.result.skipped)
        /\ \A u \in dl.attempted \ dl.failing :
               /\ u \in dl.result.downloaded
               /\ dl.track_state => u \in RecordedKeys(dwlF)

\* C23: every URL download_from_registry transferred or found present is
\* recorded as downloaded in the tracker, with and without an out_dir.
RegistryDownloadTracksState ==
    (dl.op = "download_from_registry" /\ ~dl.dry_run) =>
        \A u \in (dl.attempted \ dl.failing) \cup dl.result.downloaded
                    \cup Range(dl.result.skipped) :
            u \in RecordedKeys(dwlF)

\* the conditions under which the four methods must refuse a call
InvalidRequest(start, end, orbit) ==
    \/ (orbit # "" /\ (start.given \/ end.given))
    \/ (start.given /\ end.given /\ start.t > end.t)
    \/ (start.given /\ ~start.aware)
    \/ (end.given /\ ~end.aware)

\* C24: search, sync, load_from_registry and build_catalog raise
\* InvalidRequestError, before any request to the backend and before any
\* file is written, when orbit comes with start or end, when start is after
\* end, and when a given start or end carries no timezone.
InvalidRequestRaisedFirst ==
    (vcall.op # "none" /\ InvalidRequest(vcall.start, vcall.end, vcall.orbit)) =>
        vcall.raised = "InvalidRequestError" /\ vcall.effects = {}

\* a sync call refused only because its start lies after its end
SyncRefusedForOrder ==
    /\ vcall.op = "sync"
    /\ vcall.start.given /\ vcall.end.given
    /\ vcall.start.aware /\ vcall.end.aware
    /\ vcall.start.t > vcall.end.t
    /\ vcall.raised = "InvalidRequestError" /\ vcall.effects = {}

\* the URLs of a list that carry a sensing time
DatedUrls(L) == {L[i] : i \in {j \in 1 .. Len(L) : ExtractSensingTime(L[j]) # None}}

\* C25: add_urls of a tracker with a data directory and save_urls return
\* for every list of URLs; each URL of the list that has a sensing time is
\* recorded afterwards, and the call changes a URL file only by adding
\* whole records of the list to it.
UrlCallsNeverRaise ==
    \A L \in UrlLists :
        LET a == AddUrlsOp(urlF, L, TRUE)
            s == SaveUrlsOp(urlF, L, dataDir)
        IN  /\ ~a.raised
            /\ DatedUrls(L) \subseteq RecordedKeys(a.files)
            /\ ~s.raised
            /\ RecordedKeys(s.files) = RecordedKeys(urlF) \cup DatedUrls(L)

\* C26: for every URL, of either naming convention, extract_info returns in
\* each field what the extractor of that field returns for the same URL; for
\* a legacy (AE_) URL its baseline is the one of the URL's path.
ExtractInfoAgreesWithExtractors ==
    \A u \in RegUrls \cup RecordedKeys(urlF) :
        LET info == ExtractInfo(u)
        IN  /\ info.sensing_time = ExtractSensingTime(u)
            /\ info.product_type = ExtractProduct(u)
            /\ info.creation_time = ExtractCreationTime(u)
            /\ info.baseline = ExtractBaseline(u, TRUE)
            /\ u.conv = "AE" => info.baseline = u.bl

\* the fetch windows of the last build for which the backend reports data
WindowsWithData ==
    {i \in 1 .. Len(blog.to_fetch) :
        SearchHasAnyProduct(items, "PRODUCT", "BL", blog.to_fetch[i].start,
                            blog.to_fetch[i].end)}

\* C27: a build leaves the baseline's entry as it found it (time bounds,
\* frames, count and updated_at) when the normalized range asked for lies
\* inside the recorded range, and then it issues no search; and when none of
\* its fetch windows reports data.
BuildWithoutDataKeepsEntry ==
    blog.op = "build" =>
        LET r == NormalizeTimeRange(blog.start, blog.end, MissionStart,
                                    MissionEnd, blog.nows[2])
        IN  /\ (/\ HasRange(blog.existing)
                /\ blog.existing.time_start <= r[1]
                /\ r[2] <= blog.existing.time_end) =>
                   /\ blog.result.entry = blog.existing
                   /\ blog.queries = <<>>
            /\ WindowsWithData = {} => blog.result.entry = blog.existing

\* a later build that searched a window outside the recorded range, found
\* nothing there and left the entry with its earlier updated_at
LaterBuildFoundNothing ==
    /\ blog.op = "build"
    /\ blog.existing.present
    /\ blog.to_fetch # <<>> /\ WindowsWithData = {}
    /\ blog.queries # <<>>
    /\ blog.existing.updated_at < ToZulu(blog.nows[1])
    /\ blog.result.entry = blog.existing

\* the entry one forced build over the range of the last build records
FullBuildEntry ==
    BuildOp(NoCatalog, NoCatalog, items, blog.start, blog.end,
            <<tzoff, tzoff>>, TRUE, BlogNows).catalog.entry

\* C28: on an unchanging backend with an exact time filter, after non-force
\* builds over ranges each containing the one before, the baseline's count,
\* time_start and time_end are those of one forced build over the last
\* range.
WideningBuildsEqualFullBuild ==
    blog.op = "build_catalog" =>
        /\ disk.entry.count = FullBuildEntry.count
        /\ disk.entry.time_start = FullBuildEntry.time_start
        /\ disk.entry.time_end = FullBuildEntry.time_end

\* the items of S whose sensing time lies in [start, end]
SensedWithin(S, start, end) ==
    {x \in S : /\ ExtractSensingTime(x) # None
               /\ start <= ExtractSensingTime(x)
               /\ ExtractSensingTime(x) <= end}

\* C29: for every window [start, end], get_pending_downloads(start, end) is
\* the part of get_pending_downloads() sensed inside the window, and
\* get_pending_mark_paths(start, end) the part of get_pending_mark_paths()
\* sensed inside it.
WindowedPendingIsFilteredPending ==
    \A start \in WindowTimes : \A end \in WindowTimes :
        /\ GetPendingDownloads(urlF, dwlF, start, end)
             = SensedWithin(GetPendingDownloads(urlF, dwlF, None, None), start, end)
        /\ LET every == GetPendingMarkPaths(dwlF, mrkF, None, None, dataDir)
               within == GetPendingMarkPaths(dwlF, mrkF, start, end, dataDir)
           IN  ~every.raised =>
                   /\ ~within.raised
                   /\ within.paths = SensedWithin(every.paths, start, end)

\* the alphabetically last name of a non-empty set of upper-case names
LastName(S) == CHOOSE x \in S : \A y \in S : y.id <= x.id

\* the queryables baselines (upper case) of the last selection
QueryablesBaselines == {Upper(b) : b \in sel.enum}

\* C30: with a baseline filter the build updates exactly the queryables
\* baselines that match it without regard to case, whatever the
\* latest-baseline flag; without a filter and in latest-baseline mode it
\* updates one baseline, the alphabetically last of the product's catalog
\* entry or, when that has none, the alphabetically last baseline with data
\* (none when no baseline has data); otherwise every queryables baseline.
BuildUpdatesSelectedBaselines ==
    sel.op = "build" =>
        LET updated == Range(sel.to_update)
            with_data == QueryablesBaselines \cap sel.with_data
        IN  /\ sel.baselines_filter # {} =>
                 updated = {b \in QueryablesBaselines :
                               \E f \in sel.baselines_filter : Upper(f) = b}
            /\ (sel.baselines_filter = {} /\ sel.latest_baseline) =>
                 /\ sel.existing # {} => sel.to_update = <<LastName(sel.existing)>>
                 /\ (sel.existing = {} /\ with_data # {}) =>
                        sel.to_update = <<LastName(with_data)>>
                 /\ (sel.existing = {} /\ with_data = {}) => sel.to_update = <<>>
            /\ (sel.baselines_filter = {} /\ ~sel.latest_baseline) =>
                 updated = QueryablesBaselines

\* a build with a lower-case filter and the latest-baseline flag that updates
\* a baseline other than the last one of the catalog
FilterWonOverLatest ==
    /\ sel.op = "build"
    /\ sel.latest_baseline
    /\ sel.existing # {}
    /\ \E f \in sel.baselines_filter : f.lower
    /\ sel.to_update # <<>>
    /\ LastName(sel.existing) \notin Range(sel.to_update)

\* C31: search_urls_by_orbit and search_urls return a list, without raising,
\* whatever items without a sensing time the result set holds; for a product
\* of NO_ORBIT_PRODUCTS search_urls_by_orbit returns the empty list and sends
\* no query.
UrlSearchesNeverRaise ==
    /\ oret.op # "none" => ~oret.raised
    /\ (oret.op = "search_urls_by_orbit" /\ oret.product_type \in NO_ORBIT_PRODUCTS) =>
           oret.urls = <<>> /\ oret.queries = 0

\* whether the URL file of the URL's date, read back, has a line of the URL
OnUrlFile(u) ==
    LET pairs == BytePairs(rf[DateOf(ExtractSensingTime(u))].bytes)
    IN  \E i \in 1 .. Len(pairs) : pairs[i][1] = UrlBytes(u)

\* both calls have returned and a URL that one of them counted as newly saved
\* is not on the URL file of its date
LostUpdate ==
    /\ \A p \in Savers : sv[p].pc = "returned"
    /\ \E p \in Savers : \E u \in sv[p].counted : ~OnUrlFile(u)

\* C32: two save_urls calls on one registry can lose an update: the state in
\* which both have returned and a URL counted as newly saved by one of them is
\* absent from the URL file is reachable (LostUpdate), and it is reached only
\* when the two calls ran at the same time, never when one followed the other.
LostUpdateOnlyWhenConcurrent == LostUpdate => overlap

\* C33: a URL is recorded as downloaded only when a transfer of it ran to the
\* end: after any runs of sync and download in which transfers fail or stop in
\* the stream, every URL of the downloaded set has a completed transfer.
DownloadedOnlyWhenComplete ==
    GetDownloadedUrls(dwlF, None, None) \subseteq sy.completed

\* C34: the granules returned by search_product_info_range(start, end), and
\* the time_start and time_end get_baseline_info takes from them, have their
\* sensing times inside the normalized [start, end], also when start or end
\* falls inside a day that holds data outside the range.
InfoRangeInsideWindow ==
    (spc = "search_product_info_range" /\ sout.found) =>
        LET r == NormalizeTimeRange(sin.start, sin.end, MissionStart, MissionEnd,
                                    sin.nows[1])
            info == GetBaselineInfo(items, "PRODUCT", "BL", sin.start, sin.end,
                                    <<tzoff, tzoff>>,
                                    Append(sin.nows, sin.nows[InfoReads - 1])).info
        IN  /\ r[1] <= sout.first.sensing_time /\ sout.first.sensing_time <= r[2]
            /\ r[1] <= sout.last.sensing_time /\ sout.last.sensing_time <= r[2]
            /\ r[1] <= info.time_start /\ info.time_end <= r[2]

\* C35: search_has_any_product(start, end) returns True whenever the backend,
\* one that reports its matched count, holds a granule of the baseline whose
\* sensing time and whose indexed time both lie in [start, end], however many
\* other items the query matches (more than max_items of them included) and
\* in whatever order the backend yields them.
HasAnyForGranuleInsideRange ==
    (/\ uret.op = "search_has_any_product" /\ counted
     /\ \E g \in Range(StacSearch(items, uret.baseline, sin.start, sin.end)) :
            sin.start <= ExtractSensingTime(g) /\ ExtractSensingTime(g) <= sin.end)
        => uret.has_any

\* the days of the granules sensed inside the resolved range of the call
DataDays ==
    {DateOf(g.t) : g \in {x \in Range(items) : sin.start <= x.t /\ x.t <= sin.end}}

\* C36: against an exact backend the binary searches of
\* search_product_info_range find the true boundary days of any set of data
\* days, gaps included: the first ends on the earliest day with data inside
\* the range and the second on the latest.
BinarySearchesFindBoundaryDays ==
    (spc # "in" /\ slack = 0 /\ DataDays # {}) =>
        /\ bis.op = "searched"
        /\ bis.first_day \in DataDays /\ \A d \in DataDays : bis.first_day <= d
        /\ bis.last_day \in DataDays /\ \A d \in DataDays : d <= bis.last_day

\* an exact backend with data on both sides of a day without data, searched
\* over a range that holds them all
BoundariesFoundAcrossGap ==
    /\ spc = "search_product_info_range" /\ slack = 0 /\ bis.op = "searched"
    /\ bis.first_day \in DataDays /\ bis.last_day \in DataDays
    /\ \E d \in bis.first_day .. bis.last_day : d \notin DataDays

\* C37: in sync and download(track_state=True) a URL is written to the URL
\* files before it can be recorded as downloaded: after any sequence of these
\* calls the downloaded URLs are among the discovered ones, and get_stats
\* reports pending_downloads = total_urls - downloaded.
DownloadedAreDiscovered ==
    LET got == GetStats(urlF, dwlF, mrkF, errF, None, None, dataDir)
    IN  /\ GetDownloadedUrls(dwlF, None, None)
               \subseteq Range(LoadUrlsWithPaths(urlF, None, None))
        /\ ~got.raised
        /\ got.stats.pending_downloads = got.stats.total_urls - got.stats.downloaded

\* two calls have each recorded a download, the second a tracked download
BothRecordedDownloads ==
    /\ sy.op = "download" /\ sy.runs >= 2
    /\ \E u \in sy.dwl_before : u \notin sy.attempted
    /\ \E u \in sy.attempted : u \in GetDownloadedUrls(dwlF, None, None) \ sy.dwl_before
    /\ GetStats(urlF, dwlF, mrkF, errF, None, None, dataDir).stats.downloaded >= 2

\* C38: sync never transfers a URL already recorded as downloaded: in any
\* sequence of sync, download, mark and cleanup_marked calls, no transfer of a
\* sync run is of a URL that was in the downloaded set when the run began,
\* also when its file has been marked and deleted since.
SyncSkipsDownloaded ==
    sy.op = "sync" => sy.attempted \cap sy.dwl_before = {}

\* a sync found a URL whose file had been downloaded, marked and deleted by
\* cleanup_marked, and transferred another URL
SyncAfterCleanup ==
    /\ sy.op = "sync" /\ sy.attempted # {}
    /\ \E u \in Range(sy.urls) :
          /\ u \in sy.dwl_before
          /\ PathOf(u) \in GetMarkedPaths(mrkF, None, None)
          /\ PathOf(u) \notin sy.fs_before
          /\ PathOf(u) \notin fs

====
